---- MODULE Spec2Model ----
(***************************************************************************)
(* Canvas generation of the virtual-assistant repository: the plugin's     *)
(* graph validator, pre-built layout generators and saveCanvas             *)
(* (src/src/services/canvas.ts), the server's description-driven layout    *)
(* generators (src/mcp-server/src/canvas.ts) and the server's vault        *)
(* (VaultService).                                                         *)
(*                                                                         *)
(* JavaScript strings are TLA+ strings; TLC evaluates Len, SubSeq, Head,   *)
(* Tail and \o on them.  The module text is ASCII, so the bullet U+2022 of *)
(* the source's regular expressions is written as the character BULLET.    *)
(* A JavaScript `undefined` (an absent property) is the value Undefined.   *)
(***************************************************************************)
EXTENDS Integers, Sequences, FiniteSets, TLC

VARIABLES
    op,           \* which operation produced `canvas`; "input" before any ran
    data,         \* the raw graph handed to validateAndFixCanvasData
    description,  \* the description handed to the server's createCanvas
    canvas,       \* the CanvasData returned by the operation
    records,      \* the tasks, risks and mind-map tree handed to the plugin's
                  \* pre-built layout generators
    args,         \* the arguments of a helper called on its own
    result,       \* what the helper or the save returned
    vault,        \* the folders and files of the vault
    pc,           \* where each request that is under way stands, with its locals
    gemini,       \* the language model: its client, the calls made to it
    plugin,       \* VirtualAssistantPlugin: settings, chatHistory, stored data
    view          \* ChatSidebarView: chatHistory, isLoading, inputField

vars == <<op, data, description, canvas, records, args, result, vault,
          pc, gemini, plugin, view>>

-----------------------------------------------------------------------------
(* Bounds of the model *)

MaxNodes == 2
MaxEdges == 2
MaxLines == 3
MaxCrowd == 7

-----------------------------------------------------------------------------
(* JavaScript values and string primitives *)

Undefined == "<undefined>"
BULLET == "@"

Min(a, b) == IF a < b THEN a ELSE b
Max(a, b) == IF a > b THEN a ELSE b

\* a value used as a condition: undefined and the empty string are falsy
Truthy(v) == v # Undefined /\ v # ""

\* the character class \s restricted to the characters the inputs use
IsSpace(c) == c \in {" ", "\t", "\n"}

UpperChars == "ABCDEFGHIJKLMNOPQRSTUVWXYZ"
LowerChars == "abcdefghijklmnopqrstuvwxyz"

LowerOf ==
    [c \in {SubSeq(UpperChars, i, i) : i \in 1..Len(UpperChars)} |->
        LET i == CHOOSE k \in 1..Len(UpperChars) : SubSeq(UpperChars, k, k) = c
        IN  SubSeq(LowerChars, i, i)]

LowerChar(c) == IF c \in DOMAIN LowerOf THEN LowerOf[c] ELSE c

RECURSIVE toLowerCase(_)
toLowerCase(s) ==
    IF s = "" THEN "" ELSE LowerChar(Head(s)) \o toLowerCase(Tail(s))

\* String.prototype.includes
includes(s, p) ==
    \E i \in 1..(Len(s) - Len(p) + 1) : SubSeq(s, i, i + Len(p) - 1) = p

\* String.prototype.startsWith
startsWith(s, p) == Len(s) >= Len(p) /\ SubSeq(s, 1, Len(p)) = p

RECURSIVE trimStart(_)
trimStart(s) ==
    IF s # "" /\ IsSpace(Head(s)) THEN trimStart(Tail(s)) ELSE s

RECURSIVE trimEnd(_)
trimEnd(s) ==
    IF s # "" /\ IsSpace(SubSeq(s, Len(s), Len(s)))
    THEN trimEnd(SubSeq(s, 1, Len(s) - 1))
    ELSE s

\* String.prototype.endsWith
endsWith(s, p) == Len(s) >= Len(p) /\ SubSeq(s, Len(s) - Len(p) + 1, Len(s)) = p

\* String.prototype.trim
trim(s) == trimEnd(trimStart(s))

\* String.prototype.substring(0, n)
substring(s, n) == SubSeq(s, 1, Min(n, Len(s)))

\* String.prototype.split('\n')
RECURSIVE split(_)
split(s) ==
    IF \E i \in 1..Len(s) : SubSeq(s, i, i) = "\n"
    THEN LET i == CHOOSE k \in 1..Len(s) :
                    /\ SubSeq(s, k, k) = "\n"
                    /\ \A j \in 1..(k - 1) : SubSeq(s, j, j) # "\n"
         IN  <<SubSeq(s, 1, i - 1)>> \o split(SubSeq(s, i + 1, Len(s)))
    ELSE <<s>>

\* description.split('\n').filter(l => l.trim())
nonBlankLines(d) == SelectSeq(split(d), LAMBDA l : trim(l) # "")

\* s.replace(/^[-*BULLET]\s*/, '')
stripBullet(s) ==
    IF s # "" /\ Head(s) \in {"-", "*", BULLET} THEN trimStart(Tail(s)) ELSE s

\* the n-th identifier handed out by generateId / generateUniqueId, n >= 1;
\* the source draws it at random, the model takes a fresh one every time
generateId(n) == "id" \o ToString(n)

EmptyCanvas == [nodes |-> <<>>, edges |-> <<>>]

\* no task, no risk, no branch: what a caller with nothing to draw holds
NoRecords == [tasks |-> <<>>, risks |-> <<>>, central |-> "", branches |-> <<>>]

\* a vault without any folder or file below its root
EmptyVault == [folders |-> {}, files |-> <<>>]

\* no client of the language model, no call made
NoGemini == [client |-> FALSE, calls |-> <<>>]

\* the plugin before onload
NoPlugin == [settings |-> <<>>, chatHistory |-> <<>>, stored |-> <<>>]

\* the chat view as constructed
NoView == [chatHistory |-> <<>>, isLoading |-> FALSE, inputField |-> ""]

-----------------------------------------------------------------------------
(* CanvasService.validateAndFixCanvasData *)

\* raw numeric properties: typeof v is "number", "string" or "undefined"
Num(n) == [type |-> "number", val |-> n]
NotANumber == [type |-> "string", val |-> 0]
Missing == [type |-> "undefined", val |-> 0]

\* how many of the first k raw elements have a falsy id (and so draw an id)
idsDrawn(raw, k) == Cardinality({j \in 1..k : ~Truthy(raw[j].id)})

fixNode(node, freshId) ==
    [id     |-> IF Truthy(node.id) THEN node.id ELSE freshId,
     type   |-> IF Truthy(node.type) THEN node.type ELSE "text",
     x      |-> IF node.x.type = "number" THEN node.x.val ELSE 0,
     y      |-> IF node.y.type = "number" THEN node.y.val ELSE 0,
     width  |-> IF node.width.type = "number" THEN node.width.val ELSE 200,
     height |-> IF node.height.type = "number" THEN node.height.val ELSE 100,
     text   |-> IF Truthy(node.text) THEN node.text ELSE Undefined,
     file   |-> IF Truthy(node.file) THEN node.file ELSE Undefined,
     label  |-> IF Truthy(node.label) THEN node.label ELSE Undefined,
     color  |-> IF Truthy(node.color) THEN node.color ELSE Undefined]

fixEdge(edge, freshId) ==
    [id       |-> IF Truthy(edge.id) THEN edge.id ELSE freshId,
     fromNode |-> edge.fromNode,
     toNode   |-> edge.toNode,
     fromSide |-> IF Truthy(edge.fromSide) THEN edge.fromSide ELSE Undefined,
     toSide   |-> IF Truthy(edge.toSide) THEN edge.toSide ELSE Undefined,
     label    |-> IF Truthy(edge.label) THEN edge.label ELSE Undefined,
     color    |-> IF Truthy(edge.color) THEN edge.color ELSE Undefined]

\* a validator that forgets the referential check and keeps every edge
keepEdgeAlways(edge, nodeIds) == TRUE

\* the filter on the raw edges: both endpoints are ids of normalized nodes
keepEdge(edge, nodeIds) ==
    edge.fromNode \in nodeIds /\ edge.toNode \in nodeIds

validateAndFixCanvasData(raw) ==
    LET nodes   == [i \in 1..Len(raw.nodes) |->
                       fixNode(raw.nodes[i], generateId(idsDrawn(raw.nodes, i)))]
        nodeIds == {nodes[i].id : i \in 1..Len(nodes)}
        kept    == SelectSeq(raw.edges, LAMBDA e : keepEdge(e, nodeIds))
        base    == idsDrawn(raw.nodes, Len(raw.nodes))
        edges   == [i \in 1..Len(kept) |->
                       fixEdge(kept[i], generateId(base + idsDrawn(kept, i)))]
    IN  [nodes |-> nodes, edges |-> edges]

-----------------------------------------------------------------------------
(* CanvasGenerator.generateTaskboardFromDescription *)

columns == <<"To Do", "In Progress", "Review", "Done">>
columnWidth == 250
columnHeight == 600
padding == 20
nodeHeight == 80

getColumnColor(column) ==
    CASE column = "To Do" -> "2"
      [] column = "In Progress" -> "3"
      [] column = "Review" -> "5"
      [] column = "Done" -> "4"
      [] OTHER -> "1"

\* the column group created by the i-th round of columns.forEach, i from 0
columnGroup(i) ==
    [id |-> generateId(i + 1), type |-> "group",
     x |-> i * (columnWidth + padding), y |-> 0,
     width |-> columnWidth, height |-> columnHeight,
     text |-> Undefined, label |-> columns[i + 1],
     color |-> getColumnColor(columns[i + 1])]

\* a cursor that falls back to the first column on a line without keyword
detectColumnForgetful(lineLower, currentColumn) ==
    IF includes(lineLower, "todo") \/ includes(lineLower, "to do")
         \/ includes(lineLower, "pending") THEN 0
    ELSE IF includes(lineLower, "in progress") \/ includes(lineLower, "working") THEN 1
    ELSE IF includes(lineLower, "review") \/ includes(lineLower, "testing") THEN 2
    ELSE IF includes(lineLower, "done") \/ includes(lineLower, "complete") THEN 3
    ELSE 0

\* the cursor after a line: the if / else-if chain over the column keywords
detectColumn(lineLower, currentColumn) ==
    IF includes(lineLower, "todo") \/ includes(lineLower, "to do")
         \/ includes(lineLower, "pending") THEN 0
    ELSE IF includes(lineLower, "in progress") \/ includes(lineLower, "working") THEN 1
    ELSE IF includes(lineLower, "review") \/ includes(lineLower, "testing") THEN 2
    ELSE IF includes(lineLower, "done") \/ includes(lineLower, "complete") THEN 3
    ELSE currentColumn

\* priority and color of a task line
detectPriority(lineLower) ==
    IF includes(lineLower, "high") \/ includes(lineLower, "urgent")
         \/ includes(lineLower, "!")
    THEN [priority |-> "high", color |-> "1"]
    ELSE IF includes(lineLower, "low")
    THEN [priority |-> "low", color |-> "4"]
    ELSE [priority |-> "medium", color |-> Undefined]

taskNode(id, currentColumn, row, taskText, p) ==
    [id |-> id, type |-> "text",
     x |-> currentColumn * (columnWidth + padding) + padding,
     y |-> 60 + row * (nodeHeight + 10),
     width |-> columnWidth - 2 * padding, height |-> nodeHeight,
     text |-> "**" \o taskText \o "**\n\nPriority: " \o p.priority,
     label |-> Undefined, color |-> p.color]

\* lines.forEach of the task parser: the cursor, the per-column counters and
\* the node list are carried from one line to the next
RECURSIVE taskLines(_, _, _, _)
taskLines(lines, currentColumn, taskCounts, nodes) ==
    IF lines = <<>> THEN nodes
    ELSE LET line      == Head(lines)
             lineLower == toLowerCase(line)
             col       == detectColumn(lineLower, currentColumn)
             taskText  == trim(stripBullet(line))
         IN  IF taskText = "" \/ Len(taskText) < 3
             THEN taskLines(Tail(lines), col, taskCounts, nodes)
             ELSE taskLines(Tail(lines), col,
                            [taskCounts EXCEPT ![col] = @ + 1],
                            Append(nodes,
                                   taskNode(generateId(Len(nodes) + 1), col,
                                            taskCounts[col], taskText,
                                            detectPriority(lineLower))))

placeholderNode(id, d) ==
    [id |-> id, type |-> "text", x |-> padding, y |-> 60,
     width |-> columnWidth - 2 * padding, height |-> 80,
     text |-> "Add tasks from:\n\n" \o substring(d, 100) \o "...",
     label |-> Undefined, color |-> Undefined]

\* a test for "no tasks" that looks for an empty node list
noTasksParsedIfEmpty(nodes) == Len(nodes) = 0

\* nodes.length === 4: only the column groups were created
noTasksParsed(nodes) == Len(nodes) = 4

generateTaskboardFromDescription(d) ==
    LET groups == [i \in 1..Len(columns) |-> columnGroup(i - 1)]
        nodes  == taskLines(nonBlankLines(d), 0, [c \in 0..3 |-> 0], groups)
    IN  [nodes |-> IF noTasksParsed(nodes)
                   THEN Append(nodes, placeholderNode(generateId(5), d))
                   ELSE nodes,
         edges |-> <<>>]

-----------------------------------------------------------------------------
(* CanvasGenerator.generateRiskMatrixFromDescription *)

levels == <<"low", "medium", "high">>
cellWidth == 250
cellHeight == 200

\* levels.indexOf(level)
indexOf(level) == (CHOOSE k \in 1..Len(levels) : levels[k] = level) - 1

\* level.charAt(0).toUpperCase()
initial(level) ==
    LET c == SubSeq(level, 1, 1)
        k == CHOOSE i \in 1..Len(LowerChars) : SubSeq(LowerChars, i, i) = c
    IN  SubSeq(UpperChars, k, k)

\* thresholds that a score has to exceed, not to reach
getRiskColorAbove(impact, likelihood) ==
    LET score == (indexOf(impact) + 1) * (indexOf(likelihood) + 1)
    IN  IF score > 6 THEN "1" ELSE IF score > 3 THEN "2" ELSE "4"

getRiskColor(impact, likelihood) ==
    LET score == (indexOf(impact) + 1) * (indexOf(likelihood) + 1)
    IN  IF score >= 6 THEN "1" ELSE IF score >= 3 THEN "2" ELSE "4"

axisLabels ==
    << [id |-> generateId(1), type |-> "text", x |-> -100,
        y |-> cellHeight + padding, width |-> 80, height |-> 40,
        text |-> "**Impact**", label |-> Undefined, color |-> Undefined],
       [id |-> generateId(2), type |-> "text", x |-> cellWidth + padding,
        y |-> 3 * (cellHeight + padding) + 20, width |-> 100, height |-> 40,
        text |-> "**Likelihood**", label |-> Undefined, color |-> Undefined] >>

\* the grid cell of levels[i + 1] (impact) and levels[j + 1] (likelihood)
gridCell(id, i, j) ==
    [id |-> id, type |-> "group",
     x |-> j * (cellWidth + padding),
     y |-> (2 - i) * (cellHeight + padding),
     width |-> cellWidth, height |-> cellHeight,
     text |-> Undefined,
     label |-> initial(levels[i + 1]) \o "I / " \o initial(levels[j + 1]) \o "L",
     color |-> getRiskColor(levels[i + 1], levels[j + 1])]

\* the nested levels.forEach: impact outside, likelihood inside
gridCells == [k \in 1..9 |-> gridCell(generateId(2 + k), (k - 1) \div 3, (k - 1) % 3)]

detectLikelihood(lineLower) ==
    IF includes(lineLower, "high likelihood") \/ includes(lineLower, "likely")
    THEN "high"
    ELSE IF includes(lineLower, "low likelihood") \/ includes(lineLower, "unlikely")
    THEN "low"
    ELSE "medium"

detectImpact(lineLower) ==
    IF includes(lineLower, "high impact") \/ includes(lineLower, "critical")
    THEN "high"
    ELSE IF includes(lineLower, "low impact") \/ includes(lineLower, "minor")
    THEN "low"
    ELSE "medium"

\* a risk node whose row forgets that high impact is drawn at the top
riskNodeUpsideDown(id, impact, likelihood, count, riskText) ==
    [id |-> id, type |-> "text",
     x |-> indexOf(likelihood) * (cellWidth + padding) + padding + (count % 2) * 100,
     y |-> indexOf(impact) * (cellHeight + padding) + padding + (count \div 2) * 50,
     width |-> 100, height |-> 40,
     text |-> substring(riskText, 50), label |-> Undefined,
     color |-> getRiskColor(impact, likelihood)]

riskNode(id, impact, likelihood, count, riskText) ==
    [id |-> id, type |-> "text",
     x |-> indexOf(likelihood) * (cellWidth + padding) + padding + (count % 2) * 100,
     y |-> (2 - indexOf(impact)) * (cellHeight + padding) + padding
             + (count \div 2) * 50,
     width |-> 100, height |-> 40,
     text |-> substring(riskText, 50), label |-> Undefined,
     color |-> getRiskColor(impact, likelihood)]

\* riskCounts[key] || 0 for a Record<string, number>
countOf(riskCounts, key) ==
    IF key \in DOMAIN riskCounts THEN riskCounts[key] ELSE 0

\* lines.forEach of the risk parser
RECURSIVE riskLines(_, _, _)
riskLines(lines, riskCounts, nodes) ==
    IF lines = <<>> THEN nodes
    ELSE LET line       == Head(lines)
             lineLower  == toLowerCase(line)
             riskText   == trim(stripBullet(line))
             likelihood == detectLikelihood(lineLower)
             impact     == detectImpact(lineLower)
             key        == impact \o "-" \o likelihood
             count      == countOf(riskCounts, key)
         IN  IF riskText = "" \/ Len(riskText) < 3
             THEN riskLines(Tail(lines), riskCounts, nodes)
             ELSE riskLines(Tail(lines),
                            [k \in DOMAIN riskCounts \cup {key} |->
                                IF k = key THEN count + 1 ELSE riskCounts[k]],
                            Append(nodes,
                                   riskNode(generateId(Len(nodes) + 1), impact,
                                            likelihood, count, riskText)))

generateRiskMatrixFromDescription(d) ==
    [nodes |-> riskLines(nonBlankLines(d), <<>>, axisLabels \o gridCells),
     edges |-> <<>>]

-----------------------------------------------------------------------------
(* CanvasGenerator.generateMindMapFromDescription: the parser *)

\* s.replace(/^#\s*/, '')
stripHash(s) ==
    IF s # "" /\ Head(s) = "#" THEN trimStart(Tail(s)) ELSE s

\* s.replace(/^##?\s*/, '')
stripHashes(s) ==
    IF s # "" /\ Head(s) = "#"
    THEN IF Len(s) >= 2 /\ SubSeq(s, 2, 2) = "#"
         THEN trimStart(SubSeq(s, 3, Len(s)))
         ELSE trimStart(Tail(s))
    ELSE s

isSubItem(line) ==
    startsWith(line, "  ") \/ startsWith(line, "\t") \/ startsWith(trim(line), "-")

\* the parser's variables before the first line; currentBranch is null (<<>>)
\* or holds one open branch
parseStart ==
    [centralTheme |-> "Central Topic", branches |-> <<>>, currentBranch |-> <<>>]

\* one round of lines.forEach((line, index) => ...)
parseLine(st, line, index) ==
    LET trimmed == trim(line)
    IN  IF index = 0
        THEN [st EXCEPT !.centralTheme = stripBullet(stripHash(trimmed))]
        ELSE IF ~isSubItem(line) /\ Len(trimmed) > 2
        THEN [st EXCEPT
                !.branches = st.branches \o st.currentBranch,
                !.currentBranch =
                    <<[topic |-> stripHashes(stripBullet(trimmed)),
                       subtopics |-> <<>>]>>]
        ELSE IF isSubItem(line) /\ st.currentBranch # <<>> /\ Len(trimmed) > 2
        THEN [st EXCEPT
                !.currentBranch[1].subtopics = Append(@, stripBullet(trimmed))]
        ELSE st

RECURSIVE parseLines(_, _, _)
parseLines(st, lines, index) ==
    IF index >= Len(lines) THEN st
    ELSE parseLines(parseLine(st, lines[index + 1], index), lines, index + 1)

\* a parser that forgets the branch still open when the lines run out
sealFinalForgotten(st) == st.branches

\* if (currentBranch) branches.push(currentBranch), after the loop
sealFinal(st) == st.branches \o st.currentBranch

parseMindMap(d) ==
    LET st == parseLines(parseStart, nonBlankLines(d), 0)
    IN  [centralTheme |-> st.centralTheme, branches |-> sealFinal(st)]

-----------------------------------------------------------------------------
(* CanvasGenerator.generateMindMapFromDescription: the layout *)
(* A position is centre + sum of radius * (cos a, sin a) over the steps of *)
(* `polar`, plus the offset (dx, dy); angles are exact rationals in        *)
(* degrees, <<numerator, denominator>> with a positive denominator.        *)

centerX == 500
centerY == 400
branchRadius == 300
subBranchRadius == 150
MaxSubtopics == 5

\* angleStep * i - PI / 2, with angleStep = 2 PI / branches.length
branchAngle(i, n) == <<360 * i - 90 * n, n>>

\* subStartAngle + subAngleStep * j, for a branch of m parsed subtopics
subAngle(angle, j, m) ==
    LET k == Max(m - 1, 1)
    IN  <<(angle[1] - 30 * angle[2]) * k + 60 * j * angle[2], angle[2] * k>>

centralNode(id, centralTheme) ==
    [id |-> id, type |-> "text", polar |-> <<>>, dx |-> -75, dy |-> -40,
     width |-> 150, height |-> 80,
     text |-> "# " \o centralTheme, label |-> Undefined, color |-> "5"]

branchNode(id, i, angle, topic) ==
    [id |-> id, type |-> "text",
     polar |-> <<[radius |-> branchRadius, angle |-> angle]>>,
     dx |-> -60, dy |-> -30, width |-> 120, height |-> 60,
     text |-> "## " \o topic, label |-> Undefined,
     color |-> ToString((i % 6) + 1)]

subtopicNode(id, angle, sub, subtopic) ==
    [id |-> id, type |-> "text",
     polar |-> <<[radius |-> branchRadius, angle |-> angle],
                 [radius |-> subBranchRadius, angle |-> sub]>>,
     dx |-> -50, dy |-> -20, width |-> 100, height |-> 40,
     text |-> substring(subtopic, 30), label |-> Undefined, color |-> Undefined]

\* the difference itself, sign and all
absSigned(n) == n

\* Math.abs
abs(n) == IF n < 0 THEN -n ELSE n

\* a comparison that sends the ties between the axes to the horizontal sides
getClosestSideTiesAcross(fromX, fromY, toX, toY) ==
    LET dx == toX - fromX
        dy == toY - fromY
    IN  IF abs(dx) >= abs(dy)
        THEN (IF dx > 0 THEN "right" ELSE "left")
        ELSE (IF dy > 0 THEN "bottom" ELSE "top")

getClosestSide(fromX, fromY, toX, toY) ==
    LET dx == toX - fromX
        dy == toY - fromY
    IN  IF abs(dx) > abs(dy)
        THEN (IF dx > 0 THEN "right" ELSE "left")
        ELSE (IF dy > 0 THEN "bottom" ELSE "top")

\* the way from a point to the point at `angle` from it, as whole numbers
\* that keep what getClosestSide looks at: the signs of cos and sin of the
\* angle, and which of the two is the greater.  On the four diagonals the
\* two are equal here; the doubles of the source may differ there in their
\* last digit, and both ends of an edge see the same two numbers negated.
heading(angle) ==
    LET d    == angle[2]
        t    == angle[1] % (360 * d)
        u    == t % (180 * d)
        cosS == IF t < 90 * d \/ t > 270 * d THEN 1
                ELSE IF t = 90 * d \/ t = 270 * d THEN 0 ELSE -1
        sinS == IF t > 0 /\ t < 180 * d THEN 1
                ELSE IF t = 0 \/ t = 180 * d THEN 0 ELSE -1
        cosG == u < 45 * d \/ u > 135 * d
        sinG == u > 45 * d /\ u < 135 * d
    IN  [dx |-> cosS * (IF cosG THEN 2 ELSE 1), dy |-> sinS * (IF sinG THEN 2 ELSE 1)]

\* the edge drawn from the outer node back to the inner one
mindMapEdgeInwards(id, from, to, angle) ==
    LET h == heading(angle)
    IN  [id |-> id, fromNode |-> to, toNode |-> from,
         fromSide |-> getClosestSide(h.dx, h.dy, 0, 0),
         toSide |-> getClosestSide(0, 0, h.dx, h.dy)]

\* an edge to the node that lies at `angle` from the node it leaves
mindMapEdge(id, from, to, angle) ==
    LET h == heading(angle)
    IN  [id |-> id, fromNode |-> from, toNode |-> to,
         fromSide |-> getClosestSide(0, 0, h.dx, h.dy),
         toSide |-> getClosestSide(h.dx, h.dy, 0, 0)]

\* branch.subtopics.slice(0, 5)
rendered(subtopics) == SubSeq(subtopics, 1, Min(MaxSubtopics, Len(subtopics)))

\* branches.forEach((branch, i) => ...): `used` ids have been handed out
RECURSIVE layoutBranches(_, _, _, _, _)
layoutBranches(branches, i, used, centralId, g) ==
    IF i >= Len(branches) THEN g
    ELSE LET branch   == branches[i + 1]
             angle    == branchAngle(i, Len(branches))
             branchId == generateId(used + 1)
             subs     == rendered(branch.subtopics)
             m        == Len(branch.subtopics)
             subNodes == [j \in 1..Len(subs) |->
                            subtopicNode(generateId(used + 1 + 2 * j),
                                         angle, subAngle(angle, j - 1, m),
                                         subs[j])]
             subEdges == [j \in 1..Len(subs) |->
                            mindMapEdge(generateId(used + 2 + 2 * j),
                                        branchId, subNodes[j].id,
                                        subAngle(angle, j - 1, m))]
         IN  layoutBranches(branches, i + 1, used + 2 + 2 * Len(subs), centralId,
                 [nodes |-> g.nodes
                              \o <<branchNode(branchId, i, angle, branch.topic)>>
                              \o subNodes,
                  edges |-> g.edges
                              \o <<mindMapEdge(generateId(used + 2),
                                               centralId, branchId, angle)>>
                              \o subEdges])

generateMindMapFromDescription(d) ==
    LET tree      == parseMindMap(d)
        centralId == generateId(1)
    IN  layoutBranches(tree.branches, 0, 1, centralId,
            [nodes |-> <<centralNode(centralId, tree.centralTheme)>>,
             edges |-> <<>>])

\* CanvasGenerator.generateCustomCanvas
generateCustomCanvas(d) ==
    [nodes |-> <<[id |-> generateId(1), type |-> "text", x |-> 0, y |-> 0,
                  width |-> 400, height |-> 300, text |-> d,
                  label |-> Undefined, color |-> Undefined]>>,
     edges |-> <<>>]

-----------------------------------------------------------------------------
(* CanvasService.createTaskboardCanvas: the plugin's pre-built taskboard *)

headerHeight == 50

\* statusMap[status.toLowerCase()] || 'To Do'
mapStatusToColumn(status) ==
    LET s == toLowerCase(status)
    IN  IF s \in {"pending", "todo"} THEN "To Do"
        ELSE IF s \in {"in-progress", "inprogress"} THEN "In Progress"
        ELSE IF s = "review" THEN "Review"
        ELSE IF s \in {"completed", "done"} THEN "Done"
        ELSE "To Do"

\* colors[priority?.toLowerCase() || 'medium'] || '3'
getPriorityColor(priority) ==
    LET key == IF Truthy(priority) /\ toLowerCase(priority) # ""
               THEN toLowerCase(priority) ELSE "medium"
    IN  CASE key = "high" -> "1"
          [] key = "medium" -> "3"
          [] key = "low" -> "4"
          [] OTHER -> "3"

\* columns.indexOf(column)
columnIndex(column) == (CHOOSE k \in 1..Len(columns) : columns[k] = column) - 1

\* tasks.filter(t => this.mapStatusToColumn(t.status) === col).length
tasksOfColumn(tasks, col) ==
    Len(SelectSeq(tasks, LAMBDA t : mapStatusToColumn(t.status) = col))

\* the group created by the i-th round of columns.forEach, i from 0
columnHeader(i, tasks) ==
    [id |-> generateId(i + 1), type |-> "group",
     x |-> i * (columnWidth + padding), y |-> 0,
     width |-> columnWidth,
     height |-> headerHeight
                  + (tasksOfColumn(tasks, columns[i + 1]) + 1) * (nodeHeight + padding),
     text |-> Undefined, label |-> columns[i + 1],
     color |-> getColumnColor(columns[i + 1])]

createTaskNode(id, colIndex, rowIndex, task) ==
    [id |-> id, type |-> "text",
     x |-> colIndex * (columnWidth + padding) + padding,
     y |-> headerHeight + padding + rowIndex * (nodeHeight + padding),
     width |-> columnWidth - 2 * padding, height |-> nodeHeight,
     text |-> "**" \o task.title \o "**\n\nPriority: "
                \o (IF Truthy(task.priority) THEN task.priority ELSE "Medium"),
     label |-> Undefined, color |-> getPriorityColor(task.priority)]

\* a loop whose row counter is shared by the four columns
RECURSIVE createTaskNodesOneCounter(_, _, _)
createTaskNodesOneCounter(tasks, columnCounts, nodes) ==
    IF tasks = <<>> THEN nodes
    ELSE LET task   == Head(tasks)
             column == mapStatusToColumn(task.status)
         IN  createTaskNodesOneCounter(Tail(tasks),
                 [c \in DOMAIN columnCounts |-> columnCounts[c] + 1],
                 Append(nodes,
                        createTaskNode(generateId(Len(nodes) + 1),
                                       columnIndex(column), columnCounts[column],
                                       task)))

\* tasks.forEach(task => ...): rowIndex = columnCounts[column]++
RECURSIVE createTaskNodes(_, _, _)
createTaskNodes(tasks, columnCounts, nodes) ==
    IF tasks = <<>> THEN nodes
    ELSE LET task   == Head(tasks)
             column == mapStatusToColumn(task.status)
         IN  createTaskNodes(Tail(tasks),
                 [columnCounts EXCEPT ![column] = @ + 1],
                 Append(nodes,
                        createTaskNode(generateId(Len(nodes) + 1),
                                       columnIndex(column), columnCounts[column],
                                       task)))

createTaskboardCanvas(tasks) ==
    [nodes |-> createTaskNodes(tasks,
                   [c \in {columns[k] : k \in 1..Len(columns)} |-> 0],
                   [i \in 1..Len(columns) |-> columnHeader(i - 1, tasks)]),
     edges |-> <<>>]

-----------------------------------------------------------------------------
(* CanvasService.createRiskMatrixCanvas: the plugin's pre-built risk matrix *)

\* level.charAt(0).toUpperCase() + level.slice(1)
capitalize(level) == initial(level) \o SubSeq(level, 2, Len(level))

\* the grid cell of levels[i + 1] (impact) and levels[j + 1] (likelihood)
riskCell(id, i, j) ==
    [id |-> id, type |-> "group",
     x |-> j * (cellWidth + padding),
     y |-> (2 - i) * (cellHeight + padding),
     width |-> cellWidth, height |-> cellHeight,
     text |-> Undefined,
     label |-> capitalize(levels[i + 1]) \o " Impact / "
                 \o capitalize(levels[j + 1]) \o " Likelihood",
     color |-> getRiskColor(levels[i + 1], levels[j + 1])]

\* the nested levels.forEach: impact outside, likelihood inside
riskCells == [k \in 1..9 |-> riskCell(generateId(k), (k - 1) \div 3, (k - 1) % 3)]

\* a risk node placed three across in its cell
createRiskNodeThreeAcross(id, risk, count) ==
    [id |-> id, type |-> "text",
     x |-> indexOf(risk.likelihood) * (cellWidth + padding) + padding
             + (count % 3) * 100,
     y |-> (2 - indexOf(risk.impact)) * (cellHeight + padding) + padding
             + (count \div 3) * 60,
     width |-> 100, height |-> 50,
     text |-> risk.title, label |-> Undefined,
     color |-> getRiskColor(risk.impact, risk.likelihood)]

createRiskNode(id, risk, count) ==
    [id |-> id, type |-> "text",
     x |-> indexOf(risk.likelihood) * (cellWidth + padding) + padding
             + (count % 2) * 100,
     y |-> (2 - indexOf(risk.impact)) * (cellHeight + padding) + padding
             + (count \div 2) * 60,
     width |-> 100, height |-> 50,
     text |-> risk.title, label |-> Undefined,
     color |-> getRiskColor(risk.impact, risk.likelihood)]

\* risks.forEach(risk => ...): count = cellCounts[key]++
RECURSIVE createRiskNodes(_, _, _)
createRiskNodes(risks, cellCounts, nodes) ==
    IF risks = <<>> THEN nodes
    ELSE LET risk == Head(risks)
             key  == risk.impact \o "-" \o risk.likelihood
         IN  createRiskNodes(Tail(risks),
                 [cellCounts EXCEPT ![key] = @ + 1],
                 Append(nodes,
                        createRiskNode(generateId(Len(nodes) + 1), risk,
                                       cellCounts[key])))

createRiskMatrixCanvas(risks) ==
    [nodes |-> createRiskNodes(risks,
                   [key \in {levels[i] \o "-" \o levels[j] : i, j \in 1..3} |-> 0],
                   riskCells),
     edges |-> <<>>]

-----------------------------------------------------------------------------
(* CanvasService.createMindMapCanvas: the plugin's pre-built mind map *)

createSubtopicNode(id, angle, sub, subtopic) ==
    [id |-> id, type |-> "text",
     polar |-> <<[radius |-> branchRadius, angle |-> angle],
                 [radius |-> subBranchRadius, angle |-> sub]>>,
     dx |-> -50, dy |-> -20, width |-> 100, height |-> 40,
     text |-> subtopic, label |-> Undefined, color |-> Undefined]

\* branches.forEach((branch, i) => ...): `used` ids have been handed out
RECURSIVE createBranches(_, _, _, _, _)
createBranches(branches, i, used, centralId, g) ==
    IF i >= Len(branches) THEN g
    ELSE LET branch   == branches[i + 1]
             angle    == branchAngle(i, Len(branches))
             branchId == generateId(used + 1)
             m        == Len(branch.subtopics)
             subNodes == [j \in 1..m |->
                            createSubtopicNode(generateId(used + 1 + 2 * j),
                                               angle, subAngle(angle, j - 1, m),
                                               branch.subtopics[j])]
             subEdges == [j \in 1..m |->
                            mindMapEdge(generateId(used + 2 + 2 * j),
                                        branchId, subNodes[j].id,
                                        subAngle(angle, j - 1, m))]
         IN  createBranches(branches, i + 1, used + 2 + 2 * m, centralId,
                 [nodes |-> g.nodes
                              \o <<branchNode(branchId, i, angle, branch.topic)>>
                              \o subNodes,
                  edges |-> g.edges
                              \o <<mindMapEdge(generateId(used + 2),
                                               centralId, branchId, angle)>>
                              \o subEdges])

createMindMapCanvas(central, branches) ==
    LET centralId == generateId(1)
    IN  createBranches(branches, 0, 1, centralId,
            [nodes |-> <<centralNode(centralId, central)>>, edges |-> <<>>])

-----------------------------------------------------------------------------
(* sanitizeFilename, the same in both programs *)

\* the character class [\\/:*?"<>|]
Forbidden == {"\\", "/", ":", "*", "?", "\"", "<", ">", "|"}

\* name.replace(/[\\/:*?"<>|]/g, '-'): every forbidden character becomes a
\* dash; the string is worked on by halves
RECURSIVE replaceForbidden(_)
replaceForbidden(s) ==
    IF Len(s) <= 1 THEN (IF s \in Forbidden THEN "-" ELSE s)
    ELSE LET h == Len(s) \div 2
         IN  replaceForbidden(SubSeq(s, 1, h))
                \o replaceForbidden(SubSeq(s, h + 1, Len(s)))

\* what s.replace(/\s+/g, '-') leaves of the characters lo..hi of s: the
\* first character of a run of whitespace becomes a dash, the rest of the
\* run nothing
RECURSIVE replaceSpacesIn(_, _, _)
replaceSpacesIn(s, lo, hi) ==
    IF lo > hi THEN ""
    ELSE IF lo = hi
    THEN (IF ~IsSpace(SubSeq(s, lo, lo)) THEN SubSeq(s, lo, lo)
          ELSE IF lo > 1 /\ IsSpace(SubSeq(s, lo - 1, lo - 1)) THEN ""
          ELSE "-")
    ELSE LET h == (lo + hi) \div 2
         IN  replaceSpacesIn(s, lo, h) \o replaceSpacesIn(s, h + 1, hi)

replaceSpaces(s) == replaceSpacesIn(s, 1, Len(s))

\* a sanitizer that forgets to cut the name
sanitizeFilenameUncut(name) == replaceSpaces(replaceForbidden(name))

sanitizeFilename(name) ==
    substring(replaceSpaces(replaceForbidden(name)), 100)

-----------------------------------------------------------------------------
(* Paths.  A vault holds its folders and files by their path relative to   *)
(* the vault's root, segments joined by "/".                               *)

vaultPath == "/vault"

\* s.split('/')
RECURSIVE splitSlash(_)
splitSlash(s) ==
    IF \E i \in 1..Len(s) : SubSeq(s, i, i) = "/"
    THEN LET i == CHOOSE k \in 1..Len(s) :
                    /\ SubSeq(s, k, k) = "/"
                    /\ \A j \in 1..(k - 1) : SubSeq(s, j, j) # "/"
         IN  <<SubSeq(s, 1, i - 1)>> \o splitSlash(SubSeq(s, i + 1, Len(s)))
    ELSE <<s>>

RECURSIVE joinSlash(_)
joinSlash(segs) ==
    IF segs = <<>> THEN ""
    ELSE IF Len(segs) = 1 THEN segs[1]
    ELSE segs[1] \o "/" \o joinSlash(Tail(segs))

\* the normalisation of path.join and path.resolve: "" and "." vanish, ".."
\* takes the segment before it away; above the root of an absolute path it
\* vanishes, at the head of a relative path it stays
RECURSIVE normalize(_, _, _)
normalize(todo, done, absolute) ==
    IF todo = <<>> THEN done
    ELSE LET seg == Head(todo)
         IN  IF seg \in {"", "."} THEN normalize(Tail(todo), done, absolute)
             ELSE IF seg # ".." THEN normalize(Tail(todo), Append(done, seg), absolute)
             ELSE IF done # <<>> /\ done[Len(done)] # ".."
             THEN normalize(Tail(todo), SubSeq(done, 1, Len(done) - 1), absolute)
             ELSE IF absolute THEN normalize(Tail(todo), done, absolute)
             ELSE normalize(Tail(todo), Append(done, ".."), absolute)

\* path.join(a, b); b never starts the path afresh, even with a leading "/"
pathJoin(a, b) ==
    IF startsWith(a, "/")
    THEN "/" \o joinSlash(normalize(splitSlash(a \o "/" \o b), <<>>, TRUE))
    ELSE joinSlash(normalize(splitSlash(a \o "/" \o b), <<>>, FALSE))

\* path.resolve(from, to), from being absolute
pathResolve(from, to) ==
    "/" \o joinSlash(normalize(IF startsWith(to, "/") THEN splitSlash(to)
                               ELSE splitSlash(from \o "/" \o to),
                               <<>>, TRUE))

\* path.dirname of a normalised path
dirname(p) ==
    LET segs == splitSlash(p)
        dir  == joinSlash(SubSeq(segs, 1, Len(segs) - 1))
    IN  IF dir # "" THEN dir ELSE IF startsWith(p, "/") THEN "/" ELSE "."

\* path.relative(from, to) of two normalised absolute paths
pathRelative(from, to) ==
    LET f == normalize(splitSlash(from), <<>>, TRUE)
        t == normalize(splitSlash(to), <<>>, TRUE)
        same == {k \in 0..Min(Len(f), Len(t)) : SubSeq(f, 1, k) = SubSeq(t, 1, k)}
        c == CHOOSE k \in same : \A j \in same : j <= k
    IN  joinSlash([i \in 1..(Len(f) - c) |-> ".."] \o SubSeq(t, c + 1, Len(t)))

\* a folder path with the folders above it, the vault's root left out
withParents(dir) ==
    LET segs == splitSlash(dir)
    IN  {joinSlash(SubSeq(segs, 1, k)) : k \in 1..Len(segs)} \ {"", "."}

isFile(v, p) == p \in DOMAIN v.files
isFolder(v, p) == p \in v.folders \/ p \in {"", "."}

\* the outcome of an operation on the vault: the vault it leaves, and the
\* path it returns or the error it throws
Done(v, p) == [vault |-> v, ok |-> TRUE, path |-> p, error |-> Undefined]
Thrown(v, e) == [vault |-> v, ok |-> FALSE, path |-> Undefined, error |-> e]

\* the file at path p holds content
written(v, p, content) ==
    [v EXCEPT !.files = [q \in DOMAIN v.files \cup {p} |->
                            IF q = p THEN content ELSE v.files[q]]]

\* JSON.stringify(data, null, 2): the properties that are undefined are left
\* out (a position or a size is a number); the text is held as the JSON value
\* it spells
stringifyObject(o) ==
    [k \in {f \in DOMAIN o :
               f \in {"x", "y", "width", "height", "polar", "dx", "dy"}
                   \/ o[f] # Undefined}
        |-> o[k]]

stringify(d) ==
    [nodes |-> [i \in 1..Len(d.nodes) |-> stringifyObject(d.nodes[i])],
     edges |-> [i \in 1..Len(d.edges) |-> stringifyObject(d.edges[i])]]

-----------------------------------------------------------------------------
(* VaultService.writeCanvas and CanvasGenerator.createCanvas (server) *)

\* VaultService.resolvePath: the resolved path, or the error thrown
resolvePath(relativePath) ==
    LET resolved == pathResolve(vaultPath, relativePath)
    IN  IF ~startsWith(resolved, vaultPath)
        THEN [ok |-> FALSE, path |-> Undefined, error |-> "Path traversal not allowed"]
        ELSE [ok |-> TRUE, path |-> resolved, error |-> Undefined]

\* fs.mkdir(dir, { recursive: true }), dir relative to the vault's root
mkdir(v, dir) ==
    IF \E d \in withParents(dir) : isFile(v, d)
    THEN Thrown(v, "ENOTDIR")
    ELSE Done([v EXCEPT !.folders = @ \cup withParents(dir)], dir)

\* fs.writeFile(p, content, 'utf-8'), p relative to the vault's root
writeFile(v, p, content) ==
    IF isFolder(v, p) THEN Thrown(v, "EISDIR")
    ELSE IF ~isFolder(v, dirname(p)) THEN Thrown(v, "ENOENT")
    ELSE Done(written(v, p, content), p)

\* VaultService.writeCanvas
writeCanvas(v, canvasPath, d) ==
    LET fullPath == resolvePath(canvasPath)
    IN  IF ~fullPath.ok THEN Thrown(v, fullPath.error)
        ELSE LET finalPath == IF endsWith(fullPath.path, ".canvas")
                              THEN fullPath.path
                              ELSE fullPath.path \o ".canvas"
                 dir       == pathRelative(vaultPath, dirname(finalPath))
                 made      == mkdir(v, dir)
             IN  IF ~made.ok THEN made
                 ELSE LET wrote == writeFile(made.vault,
                                             pathRelative(vaultPath, finalPath),
                                             stringify(d))
                      IN  IF ~wrote.ok THEN wrote
                          ELSE Done(wrote.vault, pathRelative(vaultPath, finalPath))

\* the switch of createCanvas over layoutType
layoutOf(layoutType, d) ==
    CASE layoutType = "taskboard" -> generateTaskboardFromDescription(d)
      [] layoutType = "riskmatrix" -> generateRiskMatrixFromDescription(d)
      [] layoutType = "mindmap" -> generateMindMapFromDescription(d)
      [] OTHER -> generateCustomCanvas(d)

\* CanvasGenerator.createCanvas
createCanvas(v, name, layoutType, d, folder) ==
    writeCanvas(v, pathJoin(folder, sanitizeFilename(name) \o ".canvas"),
                layoutOf(layoutType, d))

-----------------------------------------------------------------------------
(* CanvasService.saveCanvas (plugin), on Obsidian's Vault *)

\* vault.createFolder(path): throws when something is at the path
createFolder(v, path) ==
    IF isFile(v, path) \/ isFolder(v, path) THEN Thrown(v, "Folder already exists.")
    ELSE Done([v EXCEPT !.folders = @ \cup withParents(path)], path)

\* vault.create(path, content): throws when something is at the path
create(v, path, content) ==
    IF isFile(v, path) \/ isFolder(v, path) THEN Thrown(v, "File already exists.")
    ELSE IF ~isFolder(v, dirname(path)) THEN Thrown(v, "ENOENT")
    ELSE Done(written(v, path, content), path)

\* vault.modify(file, content)
modify(v, path, content) == Done(written(v, path, content), path)

\* CanvasService.ensureFolderExists
ensureFolderExists(v, path) ==
    IF ~(isFile(v, path) \/ isFolder(v, path)) THEN createFolder(v, path)
    ELSE Done(v, path)

\* a save that creates the file without looking for an existing one
saveCanvasAlwaysCreate(v, canvasOutputFolder, d, name) ==
    LET ensured == ensureFolderExists(v, canvasOutputFolder)
    IN  IF ~ensured.ok THEN ensured
        ELSE create(ensured.vault,
                    canvasOutputFolder \o "/" \o sanitizeFilename(name) \o ".canvas",
                    stringify(d))

\* CanvasService.saveCanvas, with settings.canvasOutputFolder
saveCanvas(v, canvasOutputFolder, d, name) ==
    LET ensured == ensureFolderExists(v, canvasOutputFolder)
    IN  IF ~ensured.ok THEN ensured
        ELSE LET filename == sanitizeFilename(name)
                 fullPath == canvasOutputFolder \o "/" \o filename \o ".canvas"
                 content  == stringify(d)
             IN  IF isFile(ensured.vault, fullPath)
                 THEN modify(ensured.vault, fullPath, content)
                 ELSE create(ensured.vault, fullPath, content)

-----------------------------------------------------------------------------
(* Raw graphs: what JSON.parse of the model's answer can hold *)

Sized == [x |-> Num(7), y |-> Num(-3), width |-> Num(120), height |-> Num(60)]
Unsized == [x |-> NotANumber, y |-> Missing, width |-> Missing, height |-> NotANumber]
Collapsed == [x |-> Num(0), y |-> Missing, width |-> Num(0), height |-> Num(-5)]

RawNode(i, g) ==
    [id |-> i, type |-> IF g = Sized THEN "group" ELSE Undefined,
     x |-> g.x, y |-> g.y, width |-> g.width, height |-> g.height,
     text |-> IF g = Sized THEN Undefined ELSE "T",
     file |-> Undefined,
     label |-> IF g = Sized THEN "L" ELSE "",
     color |-> IF g = Collapsed THEN "" ELSE "2"]

RawNodes ==
    { RawNode("a", Sized), RawNode("b", Sized), RawNode("a", Unsized),
      RawNode("b", Collapsed), RawNode(Undefined, Sized),
      RawNode(Undefined, Collapsed), RawNode("", Unsized) }

RawEdges ==
    { [id |-> i, fromNode |-> ft[1], toNode |-> ft[2],
       fromSide |-> IF i = "e" THEN "right" ELSE Undefined,
       toSide |-> IF i = "e" THEN "" ELSE "left",
       label |-> Undefined, color |-> Undefined]
      : i \in {Undefined, "e"},
        ft \in {<<"a", "b">>, <<"a", "a">>, <<"a", "zz">>, <<"zz", "b">>} }

SeqsUpTo(S, n) == UNION {[1..k -> S] : k \in 0..n}

-----------------------------------------------------------------------------
(* The validator as a state machine *)

InitValidator ==
    /\ op = "input"
    /\ \E ns \in SeqsUpTo(RawNodes, MaxNodes), es \in SeqsUpTo(RawEdges, MaxEdges) :
          data = [nodes |-> ns, edges |-> es]
    /\ description = ""
    /\ canvas = EmptyCanvas
    /\ records = NoRecords
    /\ args = Undefined
    /\ result = Undefined
    /\ vault = EmptyVault
    /\ pc = <<>>
    /\ gemini = NoGemini
    /\ plugin = NoPlugin
    /\ view = NoView

Validate ==
    /\ op = "input"
    /\ op' = "validated"
    /\ canvas' = validateAndFixCanvasData(data)
    /\ UNCHANGED <<data, description, records, args, result, vault, pc, gemini, plugin, view>>

NextValidator == Validate

SpecValidator == InitValidator /\ [][NextValidator]_vars

-----------------------------------------------------------------------------
(* Properties of the validator *)

nodeIdsOf(g) == {g.nodes[i].id : i \in 1..Len(g.nodes)}

endpoints(edges) == [i \in 1..Len(edges) |-> <<edges[i].fromNode, edges[i].toNode>>]

\* C1: after validateAndFixCanvasData every output edge has both endpoints
\* among the output node ids, the output edges are exactly the input edges
\* whose two endpoints match an output node id (every other input edge is
\* absent), and the output has as many nodes as the input.
C1_ReferentialIntegrity ==
    op = "validated" =>
        LET ids == nodeIdsOf(canvas)
        IN  /\ \A i \in 1..Len(canvas.edges) :
                  canvas.edges[i].fromNode \in ids /\ canvas.edges[i].toNode \in ids
            /\ endpoints(canvas.edges) =
                  SelectSeq(endpoints(data.edges),
                            LAMBDA p : p[1] \in ids /\ p[2] \in ids)
            /\ Len(canvas.nodes) = Len(data.nodes)

\* a validated graph that lost a dangling edge and kept a resolving one
C1_Witness ==
    /\ op = "validated"
    /\ Len(data.nodes) = 2
    /\ Len(data.edges) = 2
    /\ Len(canvas.edges) = 1
    /\ \E i \in 1..2 : data.edges[i].toNode \notin nodeIdsOf(canvas)

\* C2: the validated graph has no two nodes with the same id and no two
\* edges with the same id, whatever ids the raw graph carries.
C2_UniqueIds ==
    op = "validated" =>
        /\ \A i, j \in 1..Len(canvas.nodes) :
              canvas.nodes[i].id = canvas.nodes[j].id => i = j
        /\ \A i, j \in 1..Len(canvas.edges) :
              canvas.edges[i].id = canvas.edges[j].id => i = j

\* C3: after validation every node has a numeric x and y and a width and a
\* height greater than zero, whatever the raw node carried.
C3_PositiveSize ==
    op = "validated" =>
        \A i \in 1..Len(canvas.nodes) :
            /\ canvas.nodes[i].x \in Int /\ canvas.nodes[i].y \in Int
            /\ canvas.nodes[i].width > 0
            /\ canvas.nodes[i].height > 0

-----------------------------------------------------------------------------
(* Descriptions handed to the server's createCanvas *)

ScenarioTaskboard == "- Fix login bug (high)\n- Write docs\n- done: deploy to prod"

LinePool ==
    { "- Fix login bug (high)", "- done: deploy to prod",
      "Minor UI glitch - low impact", "Meteor strike - unlikely",
      "Backend", "  API", "  UI", " \t",
      "In Progress: review low items", "TODO", "* ok" }

RECURSIVE join(_)
join(lines) ==
    IF lines = <<>> THEN ""
    ELSE IF Len(lines) = 1 THEN lines[1]
    ELSE lines[1] \o "\n" \o join(Tail(lines))

ScenarioRiskMatrix ==
    "Server outage - high impact, likely\nMinor UI glitch - low impact"

ScenarioMindMap == "Project X\nBackend\n  Database\n  API\nFrontend\n  UI"

\* a heading, one more line and n indented lines under it
Crowded(n) == join(<<"TODO", "Backend">> \o [i \in 1..n |-> "  API"])

Descriptions ==
    {join(ls) : ls \in SeqsUpTo(LinePool, MaxLines)}
        \cup {ScenarioTaskboard, ScenarioRiskMatrix, ScenarioMindMap}
        \cup {Crowded(n) : n \in 1..MaxCrowd}

-----------------------------------------------------------------------------
(* The server's createCanvas as a state machine: one action per layoutType *)

Init ==
    /\ op = "input"
    /\ data = EmptyCanvas
    /\ description \in Descriptions
    /\ canvas = EmptyCanvas
    /\ records = NoRecords
    /\ args = Undefined
    /\ result = Undefined
    /\ vault = EmptyVault
    /\ pc = <<>>
    /\ gemini = NoGemini
    /\ plugin = NoPlugin
    /\ view = NoView

Taskboard ==
    /\ op = "input"
    /\ op' = "taskboard"
    /\ canvas' = generateTaskboardFromDescription(description)
    /\ UNCHANGED <<data, description, records, args, result, vault, pc, gemini, plugin, view>>

RiskMatrix ==
    /\ op = "input"
    /\ op' = "riskmatrix"
    /\ canvas' = generateRiskMatrixFromDescription(description)
    /\ UNCHANGED <<data, description, records, args, result, vault, pc, gemini, plugin, view>>

MindMap ==
    /\ op = "input"
    /\ op' = "mindmap"
    /\ canvas' = generateMindMapFromDescription(description)
    /\ UNCHANGED <<data, description, records, args, result, vault, pc, gemini, plugin, view>>

Custom ==
    /\ op = "input"
    /\ op' = "custom"
    /\ canvas' = generateCustomCanvas(description)
    /\ UNCHANGED <<data, description, records, args, result, vault, pc, gemini, plugin, view>>

Next == Taskboard \/ RiskMatrix \/ MindMap \/ Custom

Spec == Init /\ [][Next]_vars

-----------------------------------------------------------------------------
(* What callers hand to the plugin's pre-built generators *)

MaxRecords == 3
MaxBranches == 2

Priorities == <<Undefined, "High", "low", "urgent">>

\* the k-th task of a list, with the status given
TaskRecord(k, status) ==
    [title |-> "T" \o ToString(k), status |-> status,
     priority |-> Priorities[(k % 4) + 1]]

TaskLists ==
    {[k \in 1..Len(ss) |-> TaskRecord(k, ss[k])] :
        ss \in SeqsUpTo({"todo", "Done", "in-progress", "blocked"}, MaxRecords)}
      \cup {[k \in 1..n |-> TaskRecord(k, "done")] : n \in 1..MaxCrowd}

\* the k-th risk of a list, with the <<impact, likelihood>> pair given
RiskRecord(k, pair) ==
    [title |-> "R" \o ToString(k), impact |-> pair[1], likelihood |-> pair[2]]

RiskLists ==
    {[k \in 1..Len(ps) |-> RiskRecord(k, ps[k])] :
        ps \in SeqsUpTo({<<"high", "high">>, <<"low", "medium">>,
                         <<"medium", "medium">>}, MaxRecords)}
      \cup {[k \in 1..n |-> RiskRecord(k, <<"high", "low">>)] : n \in 1..MaxCrowd}

\* a tree whose i-th branch has shape[i] subtopics
Tree(shape) ==
    [i \in 1..Len(shape) |->
        [topic |-> "B" \o ToString(i),
         subtopics |-> [j \in 1..shape[i] |-> "S" \o ToString(j)]]]

Trees == {Tree(shape) : shape \in SeqsUpTo(0..MaxCrowd, MaxBranches)}

PluginRecords ==
    {[NoRecords EXCEPT !.tasks = ts] : ts \in TaskLists}
      \cup {[NoRecords EXCEPT !.risks = rs] : rs \in RiskLists}
      \cup {[NoRecords EXCEPT !.central = "Project X", !.branches = bs] :
               bs \in Trees}

-----------------------------------------------------------------------------
(* The layout generators of both programs as one state machine *)

InitLayout ==
    /\ op = "input"
    /\ data = EmptyCanvas
    /\ canvas = EmptyCanvas
    /\ args = Undefined
    /\ result = Undefined
    /\ vault = EmptyVault
    /\ pc = <<>>
    /\ gemini = NoGemini
    /\ plugin = NoPlugin
    /\ view = NoView
    /\ \/ description \in Descriptions /\ records = NoRecords
       \/ description = "" /\ records \in PluginRecords

CreateTaskboardCanvas ==
    /\ op = "input"
    /\ op' = "createTaskboardCanvas"
    /\ canvas' = createTaskboardCanvas(records.tasks)
    /\ UNCHANGED <<data, description, records, args, result, vault, pc, gemini, plugin, view>>

CreateRiskMatrixCanvas ==
    /\ op = "input"
    /\ op' = "createRiskMatrixCanvas"
    /\ canvas' = createRiskMatrixCanvas(records.risks)
    /\ UNCHANGED <<data, description, records, args, result, vault, pc, gemini, plugin, view>>

CreateMindMapCanvas ==
    /\ op = "input"
    /\ op' = "createMindMapCanvas"
    /\ canvas' = createMindMapCanvas(records.central, records.branches)
    /\ UNCHANGED <<data, description, records, args, result, vault, pc, gemini, plugin, view>>

NextLayout ==
    \/ Taskboard \/ RiskMatrix \/ MindMap \/ Custom
    \/ CreateTaskboardCanvas \/ CreateRiskMatrixCanvas \/ CreateMindMapCanvas

SpecLayout == InitLayout /\ [][NextLayout]_vars

-----------------------------------------------------------------------------
(* Properties of the taskboard *)

\* the members of a set of numbers in ascending order
RECURSIVE ascending(_)
ascending(S) ==
    IF S = {} THEN <<>>
    ELSE LET m == CHOOSE x \in S : \A y \in S : x <= y
         IN  <<m>> \o ascending(S \ {m})

\* a line survives when, bullet stripped and trimmed, it has 3 characters
survives(line) == Len(trim(stripBullet(line))) >= 3

\* the indices of the surviving lines, in order
survivors(ls) == ascending({i \in 1..Len(ls) : survives(ls[i])})

columnKeywords ==
    << {"todo", "to do", "pending"}, {"in progress", "working"},
       {"review", "testing"}, {"done", "complete"} >>

mentions(line, words) ==
    LET lower == toLowerCase(line) IN \E w \in words : includes(lower, w)

\* the groups of column keywords a line mentions
groupsOf(line) == {g \in 1..4 : mentions(line, columnKeywords[g])}

\* the column chosen by the most recent keyword line at or before line i,
\* given the groups gs[j] each line j mentions: the first group, in column
\* order, of that line
cursorAt(gs, i) ==
    LET ks == {j \in 1..i : gs[j] # {}}
    IN  IF ks = {} THEN 0
        ELSE LET last == gs[CHOOSE j \in ks : \A k \in ks : k <= j]
             IN  (CHOOSE g \in last : \A h \in last : g <= h) - 1

columnOf(node) == (node.x - padding) \div (columnWidth + padding)

taskNodes == SubSeq(canvas.nodes, 5, Len(canvas.nodes))

isPlaceholder(node) == startsWith(node.text, "Add tasks from:\n\n")

\* C4: the k-th task node stands in the column chosen by the most recent
\* line, at or before its own, that mentions a column keyword (the first
\* group in column order when a line mentions several), column 0 when there
\* is none; the scenario description gives the columns 0, 0 and 3.
C4_StickyCursor ==
    op = "taskboard" =>
        LET ls == nonBlankLines(description)
            sv == survivors(ls)
            gs == [j \in 1..Len(ls) |-> groupsOf(ls[j])]
        IN  /\ sv # <<>> =>
                  /\ Len(taskNodes) = Len(sv)
                  /\ \A k \in 1..Len(sv) :
                        /\ taskNodes[k].x
                             = cursorAt(gs, sv[k]) * (columnWidth + padding) + padding
                        /\ columnOf(taskNodes[k]) = cursorAt(gs, sv[k])
            /\ description = ScenarioTaskboard =>
                  [k \in 1..Len(taskNodes) |-> columnOf(taskNodes[k])] = <<0, 0, 3>>

\* a task line without keyword that inherits the last column from an earlier
\* keyword line, in a description where some line mentions two groups
C4_Witness ==
    /\ op = "taskboard"
    /\ LET ls == nonBlankLines(description)
           sv == survivors(ls)
       IN  /\ \E k \in 1..Len(sv) :
                 groupsOf(ls[sv[k]]) = {} /\ columnOf(taskNodes[k]) = 3
           /\ \E j \in 1..Len(ls) : Cardinality(groupsOf(ls[j])) >= 2

\* C5: every description gives exactly 4 group nodes and at least one text
\* node: exactly one placeholder when no line yields a task, no placeholder
\* when some line does.
C5_NeverEmpty ==
    op = "taskboard" =>
        LET sv == survivors(nonBlankLines(description))
        IN  /\ Len(canvas.nodes) >= 5
            /\ \A i \in 1..Len(canvas.nodes) :
                  canvas.nodes[i].type = (IF i <= 4 THEN "group" ELSE "text")
            /\ sv = <<>> => Len(taskNodes) = 1 /\ isPlaceholder(taskNodes[1])
            /\ sv # <<>> => \A k \in 1..Len(taskNodes) : ~isPlaceholder(taskNodes[k])

\* a description with lines, all of them discarded, got the placeholder
C5_Witness ==
    /\ op = "taskboard"
    /\ LET ls == nonBlankLines(description)
       IN  Len(ls) >= 2 /\ survivors(ls) = <<>>
    /\ Len(canvas.nodes) = 5
    /\ isPlaceholder(canvas.nodes[5])

\* the priority the specification infers from a line
priorityOf(line) ==
    IF mentions(line, {"high", "urgent", "!"}) THEN "high"
    ELSE IF mentions(line, {"low"}) THEN "low"
    ELSE "medium"

priorityColor(priority) ==
    CASE priority = "high" -> "1"
      [] priority = "medium" -> "3"
      [] priority = "low" -> "4"

\* C6: every task text node carries the color of its inferred priority:
\* "1" for high, "3" for medium, "4" for low.
C6_PriorityColor ==
    op = "taskboard" =>
        LET ls == nonBlankLines(description)
            sv == survivors(ls)
        IN  sv # <<>> =>
              \A k \in 1..Len(taskNodes) :
                  taskNodes[k].color = priorityColor(priorityOf(ls[sv[k]]))

-----------------------------------------------------------------------------
(* Properties of the risk matrix *)

riskNodes == SubSeq(canvas.nodes, 12, Len(canvas.nodes))

\* "likely" somewhere other than at the end of "unlikely"
likelyOnItsOwn(l) ==
    \E i \in 1..(Len(l) - 5) :
        /\ SubSeq(l, i, i + 5) = "likely"
        /\ ~(i > 2 /\ SubSeq(l, i - 2, i - 1) = "un")

\* the likelihood the specification infers from a line
likelihoodOf(line) ==
    LET l == toLowerCase(line)
    IN  IF includes(l, "high likelihood") \/ likelyOnItsOwn(l) THEN "high"
        ELSE IF includes(l, "low likelihood") \/ includes(l, "unlikely") THEN "low"
        ELSE "medium"

\* the impact the specification infers from a line
impactOf(line) ==
    LET l == toLowerCase(line)
    IN  IF includes(l, "high impact") \/ includes(l, "critical") THEN "high"
        ELSE IF includes(l, "low impact") \/ includes(l, "minor") THEN "low"
        ELSE "medium"

\* the group node of the cell (impact, likelihood)
cellOf(impact, likelihood) ==
    LET name == initial(impact) \o "I / " \o initial(likelihood) \o "L"
    IN  canvas.nodes[CHOOSE i \in 1..Len(canvas.nodes) :
                        canvas.nodes[i].type = "group" /\ canvas.nodes[i].label = name]

inCell(node, cell) ==
    /\ cell.x <= node.x /\ node.x < cell.x + cell.width
    /\ cell.y <= node.y /\ node.y < cell.y + cell.height

\* C7: each surviving line is placed by the likelihood and the impact the
\* specification infers; a line whose only likelihood keyword is "unlikely"
\* stands in the low-likelihood column.
C7_LikelihoodAndImpact ==
    op = "riskmatrix" =>
        LET ls == nonBlankLines(description)
            sv == survivors(ls)
        IN  \A k \in 1..Len(sv) :
                inCell(riskNodes[k], cellOf(impactOf(ls[sv[k]]), likelihoodOf(ls[sv[k]])))

\* C8 as stated: the graph has exactly 9 group nodes and exactly n text nodes
\* for n surviving lines.
C8_NineGroupsAndOneTextPerRisk ==
    op = "riskmatrix" =>
        LET n == Len(survivors(nonBlankLines(description)))
            of(t) == {i \in 1..Len(canvas.nodes) : canvas.nodes[i].type = t}
        IN  Cardinality(of("group")) = 9 /\ Cardinality(of("text")) = n

\* C8, amended: the graph has exactly 9 group nodes and n + 2 text nodes, the
\* two axis labels first; the k-th risk node stands at the offset
\* (20 + (c mod 2) * 100, 20 + (c div 2) * 50) from the corner of the cell of
\* its (impact, likelihood) pair, c being the number of earlier risks of that
\* cell, and has the cell's color; the scenario gives 9 cells, the 2 labels
\* and 2 risk nodes, in the cells HI / HL (color "1") and LI / ML (color "4").
C8_NineGroupsTwoLabelsAndRisks ==
    op = "riskmatrix" =>
        LET ls == nonBlankLines(description)
            sv == survivors(ls)
            pair == [k \in 1..Len(sv) |->
                        <<detectImpact(toLowerCase(ls[sv[k]])),
                          detectLikelihood(toLowerCase(ls[sv[k]]))>>]
            earlier(k) == Cardinality({j \in 1..(k - 1) : pair[j] = pair[k]})
        IN  /\ Len(canvas.nodes) = 11 + Len(sv)
            /\ \A i \in 1..Len(canvas.nodes) :
                  canvas.nodes[i].type = (IF i \in 3..11 THEN "group" ELSE "text")
            /\ canvas.nodes[1].text = "**Impact**"
            /\ canvas.nodes[2].text = "**Likelihood**"
            /\ \A k \in 1..Len(sv) :
                  LET cell == cellOf(pair[k][1], pair[k][2])
                  IN  /\ riskNodes[k].x = cell.x + 20 + (earlier(k) % 2) * 100
                      /\ riskNodes[k].y = cell.y + 20 + (earlier(k) \div 2) * 50
                      /\ riskNodes[k].color = cell.color
                      /\ riskNodes[k].text = substring(trim(stripBullet(ls[sv[k]])), 50)
            /\ description = ScenarioRiskMatrix =>
                  /\ Len(riskNodes) = 2
                  /\ inCell(riskNodes[1], cellOf("high", "high"))
                  /\ riskNodes[1].color = "1"
                  /\ inCell(riskNodes[2], cellOf("low", "medium"))
                  /\ riskNodes[2].color = "4"

\* two risks share a cell and a third stands in another one
C8_Witness ==
    /\ op = "riskmatrix"
    /\ Len(riskNodes) = 3
    /\ \E j, k \in 1..3 :
          /\ j < k
          /\ riskNodes[k].x = riskNodes[j].x + 100
          /\ riskNodes[k].y = riskNodes[j].y
    /\ \E j, k \in 1..3 : riskNodes[j].color # riskNodes[k].color

-----------------------------------------------------------------------------
(* Properties of the mind map *)

nodeOf(id) ==
    canvas.nodes[CHOOSE i \in 1..Len(canvas.nodes) : canvas.nodes[i].id = id]

\* the texts of the nodes that the edges leaving node `id` lead to, in order
childTexts(id) ==
    LET es == SelectSeq(canvas.edges, LAMBDA e : e.fromNode = id)
    IN  [j \in 1..Len(es) |-> nodeOf(es[j].toNode).text]

childIds(id) ==
    LET es == SelectSeq(canvas.edges, LAMBDA e : e.fromNode = id)
    IN  [j \in 1..Len(es) |-> es[j].toNode]

\* the lines after the first that open a branch
branchLines(ls) ==
    ascending({i \in 2..Len(ls) : ~isSubItem(ls[i]) /\ Len(trim(ls[i])) > 2})

\* the sub-item lines between the k-th branch line and the next one whose
\* trimmed length is at least minLength
subItemLines(ls, opens, k, minLength) ==
    LET next == IF k < Len(opens) THEN opens[k + 1] ELSE Len(ls) + 1
    IN  ascending({i \in (opens[k] + 1)..(next - 1) :
                      isSubItem(ls[i]) /\ Len(trim(ls[i])) >= minLength})

subtopicTexts(ls, idx) ==
    [j \in 1..Min(MaxSubtopics, Len(idx)) |->
        substring(stripBullet(trim(ls[idx[j]])), 30)]

\* C9: every sub-item line met while a branch is open becomes a subtopic of
\* the most recently opened branch, whatever its length; the scenario gives
\* Backend the subtopics Database and API, and Frontend the subtopic UI.
C9_EverySubItemKept ==
    op = "mindmap" =>
        LET ls    == nonBlankLines(description)
            opens == branchLines(ls)
            bs    == childIds(canvas.nodes[1].id)
        IN  /\ Len(bs) = Len(opens)
            /\ \A k \in 1..Len(opens) :
                  childTexts(bs[k]) = subtopicTexts(ls, subItemLines(ls, opens, k, 0))
            /\ description = ScenarioMindMap =>
                  /\ canvas.nodes[1].text = "# Project X"
                  /\ childTexts(canvas.nodes[1].id) = <<"## Backend", "## Frontend">>
                  /\ childTexts(bs[1]) = <<"Database", "API">>
                  /\ childTexts(bs[2]) = <<"UI">>

\* C10: the first non-blank line is the central theme and no branch; the
\* branches are, in order, the later lines that are no sub-item and have a
\* trimmed length above 2, the last one included; every subtopic hangs on
\* the nearest branch line before it; a sub-item line before any branch
\* line gives no node.
C10_BranchesAndSubtopics ==
    op = "mindmap" =>
        LET ls    == nonBlankLines(description)
            opens == branchLines(ls)
            root  == canvas.nodes[1].id
            bs    == childIds(root)
            subs  == [k \in 1..Len(opens) |->
                        subtopicTexts(ls, subItemLines(ls, opens, k, 3))]
            total == Len(opens) + Len(SelectSeq(canvas.edges,
                                              LAMBDA e : e.fromNode # root))
        IN  /\ canvas.nodes[1].text =
                  "# " \o (IF ls = <<>> THEN "Central Topic"
                           ELSE stripBullet(stripHash(trim(ls[1]))))
            /\ childTexts(root) =
                  [k \in 1..Len(opens) |->
                      "## " \o stripHashes(stripBullet(trim(ls[opens[k]])))]
            /\ \A k \in 1..Len(opens) : childTexts(bs[k]) = subs[k]
            /\ \A i \in 1..Len(canvas.edges) :
                  canvas.edges[i].fromNode = root
                      \/ \E k \in 1..Len(bs) : canvas.edges[i].fromNode = bs[k]
            /\ Len(canvas.edges) = total
            /\ Len(canvas.nodes) = 1 + total

\* a sub-item line before the only branch line gave no node, and the branch,
\* still open when the lines ran out, is in the graph
C10_Witness ==
    /\ op = "mindmap"
    /\ LET ls == nonBlankLines(description)
       IN  /\ Len(ls) = 3
           /\ isSubItem(ls[2]) /\ Len(trim(ls[2])) > 2
           /\ branchLines(ls) = <<3>>
    /\ Len(canvas.nodes) = 2
    /\ Len(canvas.edges) = 1

\* a line that starts with two spaces, a tab or a bullet marker
marked(line) ==
    \/ startsWith(line, "  ")
    \/ startsWith(line, "\t")
    \/ line # "" /\ Head(line) \in {"-", "*", BULLET}

\* how many branches the parser holds, sealed or open, after i lines
branchesAfter(ls, i) ==
    Len(sealFinal(parseLines(parseStart, SubSeq(ls, 1, i), 0)))

\* C11: every line after the first that starts with two spaces, a tab or a
\* bullet marker (-, * or the bullet) is classified as a sub-item and opens
\* no branch: the graph has no more branch nodes than unmarked later lines.
C11_MarkedLinesOpenNoBranch ==
    op = "mindmap" =>
        LET ls == nonBlankLines(description)
        IN  /\ \A i \in 2..Len(ls) :
                  marked(ls[i]) =>
                      /\ isSubItem(ls[i])
                      /\ branchesAfter(ls, i) = branchesAfter(ls, i - 1)
            /\ Len(childIds(canvas.nodes[1].id))
                  <= Cardinality({i \in 2..Len(ls) : ~marked(ls[i])})

-----------------------------------------------------------------------------
(* Properties of the mind maps of both programs *)

isMindMap == op \in {"mindmap", "createMindMapCanvas"}

\* C12: in every mind-map graph, of the server and of the plugin, each
\* branch node has at most 5 subtopic nodes connected to it.
C12_AtMostFiveSubtopics ==
    isMindMap =>
        LET bs == childIds(canvas.nodes[1].id)
        IN  \A k \in 1..Len(bs) : Len(childIds(bs[k])) <= 5

\* two exact angles <<numerator, denominator>> that are the same number
sameAngle(p, q) == p[1] * q[2] = q[1] * p[2]

\* C13: for a branch at angle a with n rendered subtopics, subtopic j (from
\* 0) stands at a - 30 + j * 60 / (n - 1) degrees when n >= 2, so the first
\* at a - 30 and the last at a + 30, and at exactly a when n = 1.
C13_SubtopicArc ==
    isMindMap =>
        LET bs == childIds(canvas.nodes[1].id)
        IN  \A k \in 1..Len(bs) :
                LET kids == childIds(bs[k])
                    n    == Len(kids)
                    a    == nodeOf(bs[k]).polar[1].angle
                IN  \A j \in 1..n :
                        sameAngle(nodeOf(kids[j]).polar[2].angle,
                                  IF n >= 2
                                  THEN <<(a[1] - 30 * a[2]) * (n - 1)
                                           + 60 * (j - 1) * a[2],
                                         a[2] * (n - 1)>>
                                  ELSE a)

-----------------------------------------------------------------------------
(* Properties of the risk matrices of both programs *)

isRiskMatrix == op \in {"riskmatrix", "createRiskMatrixCanvas"}

groupNodes == SelectSeq(canvas.nodes, LAMBDA n : n.type = "group")

\* the text nodes of the risks, in order: they follow the grid
riskTexts ==
    SubSeq(canvas.nodes, IF op = "riskmatrix" THEN 12 ELSE 10, Len(canvas.nodes))

\* the <<impact, likelihood>> pairs of the risks, in order
riskPairs ==
    IF op = "riskmatrix"
    THEN LET ls == nonBlankLines(description)
             sv == survivors(ls)
         IN  [k \in 1..Len(sv) |->
                 <<detectImpact(toLowerCase(ls[sv[k]])),
                   detectLikelihood(toLowerCase(ls[sv[k]]))>>]
    ELSE [k \in 1..Len(records.risks) |->
             <<records.risks[k].impact, records.risks[k].likelihood>>]

levelIndex(level) == CASE level = "low" -> 0 [] level = "medium" -> 1 [] level = "high" -> 2

\* the group node of a pair's cell: the grid is built impact by impact
cellOfPair(pair) == groupNodes[3 * levelIndex(pair[1]) + levelIndex(pair[2]) + 1]

scoreColor(score) == IF score >= 6 THEN "1" ELSE IF score >= 3 THEN "2" ELSE "4"

\* the rectangle of node n lies entirely inside the rectangle of node g
inside(n, g) ==
    /\ g.x <= n.x /\ n.x + n.width <= g.x + g.width
    /\ g.y <= n.y /\ n.y + n.height <= g.y + g.height

\* how many earlier risks fell into the cell of the k-th risk
earlierInCell(k) ==
    Cardinality({j \in 1..(k - 1) : riskPairs[j] = riskPairs[k]})

\* C15: for all impact and likelihood levels of indices i, j in 0..2 the
\* color is "1" when (i + 1) * (j + 1) >= 6, "2" when it is >= 3 and < 6 and
\* "4" otherwise, the score lying in 1..9; every risk text node has the color
\* of the group cell it is placed in, the cell of its impact and likelihood
\* (which holds the node's corner as long as the cell has room, see C16).
C15_RiskColors ==
    isRiskMatrix =>
        /\ Len(groupNodes) = 9
        /\ \A i, j \in 0..2 :
              LET score == (i + 1) * (j + 1)
                  cell  == groupNodes[3 * i + j + 1]
              IN  /\ score \in 1..9
                  /\ cell.x = j * 270 /\ cell.y = (2 - i) * 220
                  /\ cell.color = scoreColor(score)
        /\ Len(riskTexts) = Len(riskPairs)
        /\ \A k \in 1..Len(riskTexts) :
              /\ riskTexts[k].color
                   = scoreColor((levelIndex(riskPairs[k][1]) + 1)
                                  * (levelIndex(riskPairs[k][2]) + 1))
              /\ riskTexts[k].color = cellOfPair(riskPairs[k]).color
              /\ earlierInCell(k) <= 5 =>
                    /\ inCell(riskTexts[k], cellOfPair(riskPairs[k]))
                    /\ \A c \in 1..9 :
                          inCell(riskTexts[k], groupNodes[c])
                              => riskTexts[k].color = groupNodes[c].color

\* a plugin matrix with a red, an orange and a green risk
C15_Witness ==
    /\ op = "createRiskMatrixCanvas"
    /\ {riskTexts[k].color : k \in 1..Len(riskTexts)} = {"1", "2", "4"}

\* the k-th risk stands at sub-column c mod 2 and sub-row c div 2 of its
\* cell, c being the number of earlier risks of the cell
atSubCell(k) ==
    LET cell == cellOfPair(riskPairs[k])
        c    == earlierInCell(k)
        step == IF op = "riskmatrix" THEN 50 ELSE 60
    IN  /\ riskTexts[k].x = cell.x + padding + (c % 2) * 100
        /\ riskTexts[k].y = cell.y + padding + (c \div 2) * step

\* C16 as stated: for every number of risks in one cell, the k-th risk of
\* the cell (k from 0) stands at sub-column k mod 2 and sub-row k div 2 and
\* its rectangle lies entirely inside the 250 x 200 rectangle of the cell.
C16_RisksInsideTheirCell ==
    isRiskMatrix =>
        \A k \in 1..Len(riskTexts) :
            LET cell == cellOfPair(riskPairs[k])
            IN  /\ atSubCell(k)
                /\ cell.width = 250 /\ cell.height = 200
                /\ inside(riskTexts[k], cell)

\* C16, amended: the k-th risk of a cell (k from 0) stands at sub-column
\* k mod 2 and sub-row k div 2; its rectangle lies entirely inside the
\* 250 x 200 rectangle of the cell exactly when k <= 5, the seventh and later
\* risks of a cell reaching below it.
C16_FirstSixInsideTheirCell ==
    isRiskMatrix =>
        \A k \in 1..Len(riskTexts) :
            LET cell == cellOfPair(riskPairs[k])
            IN  /\ atSubCell(k)
                /\ cell.width = 250 /\ cell.height = 200
                /\ inside(riskTexts[k], cell) <=> earlierInCell(k) <= 5

\* a plugin matrix whose cell holds a sixth risk inside and a seventh that
\* reaches below the cell
C16_Witness ==
    /\ op = "createRiskMatrixCanvas"
    /\ \E k \in 1..Len(riskTexts) :
          /\ earlierInCell(k) = 6
          /\ ~inside(riskTexts[k], cellOfPair(riskPairs[k]))
          /\ inside(riskTexts[k - 1], cellOfPair(riskPairs[k]))

-----------------------------------------------------------------------------
(* Properties of the taskboards of both programs *)

isTaskboard == op \in {"taskboard", "createTaskboardCanvas"}

\* how many earlier task nodes stand in the column of the k-th
earlierInColumn(k) ==
    Cardinality({j \in 1..(k - 1) : columnOf(taskNodes[j]) = columnOf(taskNodes[k])})

\* the row of a task node, from the top of its column
rowOf(node) ==
    IF op = "taskboard" THEN (node.y - 60) \div 90 ELSE (node.y - 70) \div 100

\* the k-th task node stands in the row given by the earlier tasks of its column
atRow(k) ==
    taskNodes[k].y = IF op = "taskboard" THEN 60 + earlierInColumn(k) * 90
                     ELSE 70 + earlierInColumn(k) * 100

overlap(a, b) ==
    /\ a.x < b.x + b.width /\ b.x < a.x + a.width
    /\ a.y < b.y + b.height /\ b.y < a.y + a.height

\* no two task nodes of one column overlap
columnsTidy ==
    \A j, k \in 1..Len(taskNodes) :
        (j < k /\ columnOf(taskNodes[j]) = columnOf(taskNodes[k]))
            => ~overlap(taskNodes[j], taskNodes[k])

\* C17 as stated: for any number of tasks per column, the row index of a
\* task is the number of earlier tasks of the same column only, two task
\* nodes of the same column never overlap, and each task node's rectangle
\* lies entirely inside the rectangle of its column's group node.
C17_TasksInsideTheirColumn ==
    isTaskboard =>
        /\ \A k \in 1..Len(taskNodes) :
              /\ atRow(k)
              /\ inside(taskNodes[k], canvas.nodes[columnOf(taskNodes[k]) + 1])
        /\ columnsTidy

\* C17, amended: the row index of a task is the number of earlier tasks of
\* the same column only and two task nodes of the same column never overlap;
\* in the plugin's graph every task node lies inside its column's group node,
\* in the server's graph, whose columns are 600 high, exactly the task nodes
\* of the rows 0..5.
C17_RowsAndColumns ==
    isTaskboard =>
        /\ \A k \in 1..Len(taskNodes) :
              /\ atRow(k)
              /\ inside(taskNodes[k], canvas.nodes[columnOf(taskNodes[k]) + 1])
                    <=> (op = "createTaskboardCanvas" \/ rowOf(taskNodes[k]) <= 5)
        /\ columnsTidy

\* a server taskboard whose first column holds a task in row 5, inside the
\* column, and one in row 6, which reaches below it
C17_Witness ==
    /\ op = "taskboard"
    /\ \E j, k \in 1..Len(taskNodes) :
          /\ columnOf(taskNodes[j]) = 0 /\ rowOf(taskNodes[j]) = 5
          /\ inside(taskNodes[j], canvas.nodes[1])
          /\ columnOf(taskNodes[k]) = 0 /\ rowOf(taskNodes[k]) = 6
          /\ ~inside(taskNodes[k], canvas.nodes[1])

-----------------------------------------------------------------------------
(* getClosestSide on integer points *)

MaxCoord == 2

Coords == (-MaxCoord)..MaxCoord

InitSides ==
    /\ op = "input"
    /\ data = EmptyCanvas
    /\ description = ""
    /\ canvas = EmptyCanvas
    /\ records = NoRecords
    /\ args \in [fromX : Coords, fromY : Coords, toX : Coords, toY : Coords]
    /\ result = Undefined
    /\ vault = EmptyVault
    /\ pc = <<>>
    /\ gemini = NoGemini
    /\ plugin = NoPlugin
    /\ view = NoView

GetClosestSide ==
    /\ op = "input"
    /\ op' = "getClosestSide"
    /\ result' = getClosestSide(args.fromX, args.fromY, args.toX, args.toY)
    /\ UNCHANGED <<data, description, canvas, records, args, vault, pc, gemini, plugin, view>>

NextSides == GetClosestSide

SpecSides == InitSides /\ [][NextSides]_vars

\* C14: with dx = B.x - A.x and dy = B.y - A.y, getClosestSide(A, B) is
\* "right" iff |dx| > |dy| and dx > 0, "left" iff |dx| > |dy| and dx < 0,
\* "bottom" iff |dx| <= |dy| and dy > 0, "top" iff |dx| <= |dy| and dy <= 0.
C14_ClosestSide ==
    op = "getClosestSide" =>
        LET dx == args.toX - args.fromX
            dy == args.toY - args.fromY
        IN  /\ result = "right"  <=> (abs(dx) > abs(dy) /\ dx > 0)
            /\ result = "left"   <=> (abs(dx) > abs(dy) /\ dx < 0)
            /\ result = "bottom" <=> (abs(dx) <= abs(dy) /\ dy > 0)
            /\ result = "top"    <=> (abs(dx) <= abs(dy) /\ dy <= 0)

\* a tie between the axes, B below and to the right of A, went to "bottom"
C14_Witness ==
    /\ op = "getClosestSide"
    /\ args.toX - args.fromX = 2
    /\ args.toY - args.fromY = 2
    /\ result = "bottom"

-----------------------------------------------------------------------------
(* sanitizeFilename on names *)

MaxNameLen == 2

NameChars ==
    {"a", "-", "\\", "/", ":", "*", "?", "\"", "<", ">", "|", " ", "\t", "\n"}

\* the strings of at most n characters of NameChars
RECURSIVE StringsUpTo(_)
StringsUpTo(n) ==
    IF n = 0 THEN {""}
    ELSE LET shorter == StringsUpTo(n - 1)
         IN  shorter \cup {s \o c : s \in shorter, c \in NameChars}

RECURSIVE repeat(_, _)
repeat(c, n) ==
    IF n = 0 THEN ""
    ELSE LET half == repeat(c, n \div 2)
         IN  IF n % 2 = 0 THEN half \o half ELSE half \o half \o c

\* nothing, or a run that brings the name to the cut at 100 characters
Pads == {"", repeat("x", 98), repeat("x", 100)}

Names ==
    {s \o pad : s \in StringsUpTo(MaxNameLen), pad \in Pads}
        \cup {pad \o s : s \in StringsUpTo(MaxNameLen), pad \in Pads}

InitNames ==
    /\ op = "input"
    /\ data = EmptyCanvas
    /\ description = ""
    /\ canvas = EmptyCanvas
    /\ records = NoRecords
    /\ args \in Names
    /\ result = Undefined
    /\ vault = EmptyVault
    /\ pc = <<>>
    /\ gemini = NoGemini
    /\ plugin = NoPlugin
    /\ view = NoView

SanitizeFilename ==
    /\ op = "input"
    /\ op' = "sanitizeFilename"
    /\ result' = sanitizeFilename(args)
    /\ UNCHANGED <<data, description, canvas, records, args, vault, pc, gemini, plugin, view>>

\* the sanitized name is sanitized once more
SanitizeAgain ==
    /\ op = "sanitizeFilename"
    /\ op' = "sanitizeFilename again"
    /\ args' = result
    /\ result' = sanitizeFilename(result)
    /\ UNCHANGED <<data, description, canvas, records, vault, pc, gemini, plugin, view>>

NextNames == SanitizeFilename \/ SanitizeAgain

SpecNames == InitNames /\ [][NextNames]_vars

hasChar(s, C) == \E i \in 1..Len(s) : SubSeq(s, i, i) \in C

\* C19: sanitizeFilename(s) holds none of \ / : * ? " < > | and no
\* whitespace, is at most 100 characters long, and sanitizing it once more
\* gives it back unchanged.
C19_SanitizedAndIdempotent ==
    op \in {"sanitizeFilename", "sanitizeFilename again"} =>
        /\ ~hasChar(result, Forbidden)
        /\ ~hasChar(result, {" ", "\t", "\n"})
        /\ Len(result) <= 100
        /\ op = "sanitizeFilename again" => result = args

\* a name was cut to 100 characters, the last two of them dashes that stand
\* for forbidden characters or whitespace, and sanitizing the outcome again
\* changed nothing
C19_Witness ==
    /\ op = "sanitizeFilename again"
    /\ Len(result) = 100
    /\ SubSeq(result, 99, 100) = "--"
    /\ result = args

-----------------------------------------------------------------------------
(* Canvas saves run one after another: the plugin's saveCanvas on its      *)
(* vault, or the server's createCanvas, which ends in writeCanvas, on its  *)
(* vault.  `args` holds the calls made so far, `result` what each returned *)
(* or threw.                                                               *)

MaxSaves == 3

\* "a b" and "a/b" have the same sanitized name
SaveNames == {"a b", "a/b", "Q1: plan"}

PluginSaves ==
    [program : {"plugin"}, canvasOutputFolder : {"Canvas"}, name : SaveNames,
     data : {EmptyCanvas, createTaskboardCanvas(<<TaskRecord(1, "todo")>>)}]

ServerSaves ==
    [program : {"server"}, folder : {"Canvas", "Boards/Q1"}, name : SaveNames,
     layoutType : {"custom", "taskboard"}, description : {"Ship it"}]

InitSaves ==
    /\ op = "input"
    /\ data = EmptyCanvas
    /\ description = ""
    /\ canvas = EmptyCanvas
    /\ records = NoRecords
    /\ args = <<>>
    /\ result = <<>>
    /\ vault = EmptyVault
    /\ pc = <<>>
    /\ gemini = NoGemini
    /\ plugin = NoPlugin
    /\ view = NoView

SaveCanvas ==
    /\ Len(args) < MaxSaves
    /\ \A i \in 1..Len(args) : args[i].program = "plugin"
    /\ \E call \in PluginSaves :
          LET saved == saveCanvas(vault, call.canvasOutputFolder, call.data, call.name)
          IN  /\ op' = "saveCanvas"
              /\ args' = Append(args, call)
              /\ result' = Append(result, [ok |-> saved.ok, path |-> saved.path,
                                           error |-> saved.error])
              /\ vault' = saved.vault
    /\ UNCHANGED <<data, description, canvas, records, pc, gemini, plugin, view>>

CreateCanvas ==
    /\ Len(args) < MaxSaves
    /\ \A i \in 1..Len(args) : args[i].program = "server"
    /\ \E call \in ServerSaves :
          LET saved == createCanvas(vault, call.name, call.layoutType,
                                    call.description, call.folder)
          IN  /\ op' = "createCanvas"
              /\ args' = Append(args, call)
              /\ result' = Append(result, [ok |-> saved.ok, path |-> saved.path,
                                           error |-> saved.error])
              /\ vault' = saved.vault
    /\ UNCHANGED <<data, description, canvas, records, pc, gemini, plugin, view>>

NextSaves == SaveCanvas \/ CreateCanvas

SpecSaves == InitSaves /\ [][NextSaves]_vars

\* the folder and the graph of a call
folderOf(call) ==
    IF call.program = "plugin" THEN call.canvasOutputFolder ELSE call.folder

graphOf(call) ==
    IF call.program = "plugin" THEN call.data
    ELSE layoutOf(call.layoutType, call.description)

\* the artifact a call is to end in: its folder and its sanitized name
artifactOf(call) == folderOf(call) \o "/" \o sanitizeFilename(call.name) \o ".canvas"

\* the last of the calls made so far that went to artifact p
lastSaveTo(p) ==
    LET is == {i \in 1..Len(args) : artifactOf(args[i]) = p}
    IN  args[CHOOSE i \in is : \A j \in is : j <= i]

\* C20: after any sequence of saves run one after another the vault holds
\* exactly one artifact per distinct sanitized name (of a folder), its content
\* is the graph of the last save under that name, no save failed or picked
\* another name, and the folder of every save exists, with the folders
\* above it.
C20_SavesOverwriteInPlace ==
    op \in {"saveCanvas", "createCanvas"} =>
        /\ \A i \in 1..Len(args) :
              /\ result[i].ok
              /\ result[i].path = artifactOf(args[i])
              /\ withParents(folderOf(args[i])) \subseteq vault.folders
        /\ DOMAIN vault.files = {artifactOf(args[i]) : i \in 1..Len(args)}
        /\ Cardinality(DOMAIN vault.files)
             = Cardinality({<<folderOf(args[i]), sanitizeFilename(args[i].name)>> :
                               i \in 1..Len(args)})
        /\ \A p \in DOMAIN vault.files :
              vault.files[p] = stringify(graphOf(lastSaveTo(p)))

\* two saves under different names with one sanitized name, of different
\* graphs, left one artifact with the second graph; a third made another
C20_Witness ==
    /\ op = "saveCanvas"
    /\ Len(args) = 3
    /\ args[1].name = "a b" /\ args[2].name = "a/b" /\ args[3].name = "Q1: plan"
    /\ args[1].data # args[2].data
    /\ DOMAIN vault.files = {"Canvas/a-b.canvas", "Canvas/Q1--plan.canvas"}
    /\ vault.files["Canvas/a-b.canvas"] = stringify(args[2].data)

-----------------------------------------------------------------------------
(* VaultService.createNote (server) *)

\* fs.access(p), p relative to the vault's root: "ok", or the code of the
\* error it rejects with
access(v, p) ==
    IF isFile(v, p) \/ isFolder(v, p) THEN "ok"
    ELSE IF \E d \in withParents(dirname(p)) : isFile(v, d) THEN "ENOTDIR"
    ELSE "ENOENT"

\* the path createNote writes to, relative to the vault's root
notePathOf(fullPath) ==
    pathRelative(vaultPath, IF endsWith(fullPath, ".md") THEN fullPath
                            ELSE fullPath \o ".md")

\* a createNote whose catch swallows every error of the existence check
createNoteSwallowing(v, notePath, content, overwrite) ==
    LET fullPath == resolvePath(notePath)
    IN  IF ~fullPath.ok THEN Thrown(v, fullPath.error)
        ELSE LET finalPath == notePathOf(fullPath.path)
                 made      == mkdir(v, dirname(finalPath))
             IN  IF ~made.ok THEN made
                 ELSE writeFile(made.vault, finalPath, content)

\* VaultService.createNote
createNote(v, notePath, content, overwrite) ==
    LET fullPath == resolvePath(notePath)
    IN  IF ~fullPath.ok THEN Thrown(v, fullPath.error)
        ELSE LET finalPath == notePathOf(fullPath.path)
                 found     == access(v, finalPath)
             IN  IF found = "ok" /\ ~overwrite
                 THEN Thrown(v, "Note already exists: " \o notePath)
                 ELSE IF found \notin {"ok", "ENOENT"} THEN Thrown(v, found)
                 ELSE LET made == mkdir(v, dirname(finalPath))
                      IN  IF ~made.ok THEN made
                          ELSE writeFile(made.vault, finalPath, content)

-----------------------------------------------------------------------------
(* Requests under way at once.  JavaScript runs one request until its next *)
(* await; what a request awaits (a call on Obsidian's Vault, a call on     *)
(* fs/promises) takes effect in one step, some time before the request     *)
(* goes on.  `args` holds the calls, `pc` where each stands and the locals *)
(* it keeps, `result` what each returned or threw (Undefined until then).  *)

MaxRequests == 2

Requests == 1..MaxRequests

RacingNames == {"a b", "a/b"}

OldCanvas == generateCustomCanvas("old")

PluginRequests ==
    [program : {"plugin"}, canvasOutputFolder : {"Canvas"}, name : RacingNames,
     data : {EmptyCanvas, createTaskboardCanvas(<<TaskRecord(1, "todo")>>)}]

ServerRequests ==
    [program : {"server"}, folder : {"Canvas"}, name : RacingNames,
     layoutType : {"custom", "taskboard"}, description : {"Ship it"}]

NoteRequests ==
    [program : {"createNote"}, notePath : {"Tasks/a", "Tasks/a.md"},
     content : {"one", "two"}, overwrite : {FALSE, TRUE}]

\* the vaults a run starts on: nothing, the folder, the folder and the file
CanvasVaults ==
    {EmptyVault,
     [folders |-> {"Canvas"}, files |-> <<>>],
     [folders |-> {"Canvas"},
      files |-> [p \in {"Canvas/a-b.canvas"} |-> stringify(OldCanvas)]]}

NoteVaults ==
    {EmptyVault,
     [folders |-> {"Tasks"}, files |-> <<>>],
     [folders |-> {"Tasks"}, files |-> [p \in {"Tasks/a.md"} |-> "old"]]}

\* `turn` numbers the writes in the order they took effect, 0 for none
Called(name) == [at |-> name, path |-> Undefined, content |-> Undefined, turn |-> 0]
Returned(p) == [ok |-> TRUE, path |-> p, error |-> Undefined]
Threw(e) == [ok |-> FALSE, path |-> Undefined, error |-> e]

InitRequests ==
    /\ op = "input"
    /\ data = EmptyCanvas
    /\ description = ""
    /\ canvas = EmptyCanvas
    /\ records = NoRecords
    /\ \/ /\ args \in [Requests -> PluginRequests]
          /\ vault \in CanvasVaults
          /\ pc = [i \in Requests |-> Called("saveCanvas")]
       \/ /\ args \in [Requests -> ServerRequests]
          /\ vault \in CanvasVaults
          /\ pc = [i \in Requests |-> Called("createCanvas")]
       \/ /\ args \in [Requests -> NoteRequests]
          /\ vault \in NoteVaults
          /\ pc = [i \in Requests |-> Called("createNote")]
    /\ result = [i \in Requests |-> Undefined]
    /\ gemini = NoGemini
    /\ plugin = NoPlugin
    /\ view = NoView

\* request i goes on to position `at`
goes(i, at, p, content) ==
    /\ pc' = [pc EXCEPT ![i] = [at |-> at, path |-> p, content |-> content,
                                turn |-> 0]]
    /\ UNCHANGED result

\* request i ends with what the awaited call gave
ends(i, outcome) ==
    /\ pc' = [pc EXCEPT ![i] = [@ EXCEPT !.at = "done"]]
    /\ result' = [result EXCEPT ![i] = IF outcome.ok THEN Returned(outcome.path)
                                       ELSE Threw(outcome.error)]

\* request i ends with the write it awaited
wrote(i, outcome) ==
    /\ pc' = [pc EXCEPT ![i] =
                 [@ EXCEPT !.at = "done",
                           !.turn = IF outcome.ok
                                    THEN 1 + Cardinality({j \in Requests : pc[j].turn > 0})
                                    ELSE 0]]
    /\ result' = [result EXCEPT ![i] = IF outcome.ok THEN Returned(outcome.path)
                                       ELSE Threw(outcome.error)]

\* saveCanvas up to its first await: ensureFolderExists looks for the folder
\* and calls vault.createFolder when it finds nothing
EnsureFolderExists(i) ==
    /\ pc[i].at = "saveCanvas"
    /\ LET path == args[i].canvasOutputFolder
       IN  IF ~(isFile(vault, path) \/ isFolder(vault, path))
           THEN goes(i, "createFolder", path, Undefined)
           ELSE goes(i, "ensured", path, Undefined)
    /\ op' = "ensureFolderExists"
    /\ UNCHANGED <<data, description, canvas, records, args, vault, gemini, plugin, view>>

\* the awaited vault.createFolder takes effect
CreateFolder(i) ==
    /\ pc[i].at = "createFolder"
    /\ LET made == createFolder(vault, pc[i].path)
       IN  /\ vault' = made.vault
           /\ IF made.ok THEN goes(i, "ensured", pc[i].path, Undefined)
              ELSE ends(i, made)
    /\ op' = "createFolder"
    /\ UNCHANGED <<data, description, canvas, records, args, gemini, plugin, view>>

\* saveCanvas after ensureFolderExists: the file name, the content, the look
\* for an existing file, and the call of vault.modify or vault.create
GetAbstractFileByPath(i) ==
    /\ pc[i].at = "ensured"
    /\ LET filename == sanitizeFilename(args[i].name)
           fullPath == args[i].canvasOutputFolder \o "/" \o filename \o ".canvas"
           content  == stringify(args[i].data)
       IN  IF isFile(vault, fullPath)
           THEN goes(i, "modify", fullPath, content)
           ELSE goes(i, "create", fullPath, content)
    /\ op' = "getAbstractFileByPath"
    /\ UNCHANGED <<data, description, canvas, records, args, vault, gemini, plugin, view>>

\* the awaited vault.modify takes effect
Modify(i) ==
    /\ pc[i].at = "modify"
    /\ LET saved == modify(vault, pc[i].path, pc[i].content)
       IN  vault' = saved.vault /\ wrote(i, saved)
    /\ op' = "modify"
    /\ UNCHANGED <<data, description, canvas, records, args, gemini, plugin, view>>

\* the awaited vault.create takes effect
Create(i) ==
    /\ pc[i].at = "create"
    /\ LET saved == create(vault, pc[i].path, pc[i].content)
       IN  vault' = saved.vault /\ wrote(i, saved)
    /\ op' = "create"
    /\ UNCHANGED <<data, description, canvas, records, args, gemini, plugin, view>>

\* createCanvas up to the first await of writeCanvas: the layout, the path,
\* resolvePath, the extension, and the call of fs.mkdir
BeginCreateCanvas(i) ==
    /\ pc[i].at = "createCanvas"
    /\ LET canvasPath == pathJoin(args[i].folder,
                                  sanitizeFilename(args[i].name) \o ".canvas")
           fullPath   == resolvePath(canvasPath)
       IN  IF ~fullPath.ok THEN ends(i, fullPath)
           ELSE goes(i, "mkdir",
                     pathRelative(vaultPath,
                                  IF endsWith(fullPath.path, ".canvas")
                                  THEN fullPath.path
                                  ELSE fullPath.path \o ".canvas"),
                     stringify(layoutOf(args[i].layoutType, args[i].description)))
    /\ op' = "writeCanvas"
    /\ UNCHANGED <<data, description, canvas, records, args, vault, gemini, plugin, view>>

\* createNote up to its first await: resolvePath, the extension, and the
\* call of fs.access
BeginCreateNote(i) ==
    /\ pc[i].at = "createNote"
    /\ LET fullPath == resolvePath(args[i].notePath)
       IN  IF ~fullPath.ok THEN ends(i, fullPath)
           ELSE goes(i, "access", notePathOf(fullPath.path), args[i].content)
    /\ op' = "createNote"
    /\ UNCHANGED <<data, description, canvas, records, args, vault, gemini, plugin, view>>

\* the awaited fs.access takes effect, and createNote goes on to fs.mkdir or
\* throws
Access(i) ==
    /\ pc[i].at = "access"
    /\ LET found == access(vault, pc[i].path)
       IN  IF found = "ok" /\ ~args[i].overwrite
           THEN ends(i, Thrown(vault, "Note already exists: " \o args[i].notePath))
           ELSE IF found \notin {"ok", "ENOENT"} THEN ends(i, Thrown(vault, found))
           ELSE goes(i, "mkdir", pc[i].path, pc[i].content)
    /\ op' = "access"
    /\ UNCHANGED <<data, description, canvas, records, args, vault, gemini, plugin, view>>

\* the awaited fs.mkdir takes effect (writeCanvas and createNote)
Mkdir(i) ==
    /\ pc[i].at = "mkdir"
    /\ LET made == mkdir(vault, dirname(pc[i].path))
       IN  /\ vault' = made.vault
           /\ IF made.ok THEN goes(i, "writeFile", pc[i].path, pc[i].content)
              ELSE ends(i, made)
    /\ op' = "mkdir"
    /\ UNCHANGED <<data, description, canvas, records, args, gemini, plugin, view>>

\* the awaited fs.writeFile takes effect (writeCanvas and createNote)
WriteFile(i) ==
    /\ pc[i].at = "writeFile"
    /\ LET done == writeFile(vault, pc[i].path, pc[i].content)
       IN  vault' = done.vault /\ wrote(i, done)
    /\ op' = "writeFile"
    /\ UNCHANGED <<data, description, canvas, records, args, gemini, plugin, view>>

NextRequests ==
    \E i \in Requests :
        \/ EnsureFolderExists(i)
        \/ CreateFolder(i)
        \/ GetAbstractFileByPath(i)
        \/ Modify(i)
        \/ Create(i)
        \/ BeginCreateCanvas(i)
        \/ BeginCreateNote(i)
        \/ Access(i)
        \/ Mkdir(i)
        \/ WriteFile(i)

SpecRequests == InitRequests /\ [][NextRequests]_vars

-----------------------------------------------------------------------------
(* Properties of requests under way at once *)

allDone == \A i \in Requests : pc[i].at = "done"

\* the requests whose write took effect, and the last of them
writers == {i \in Requests : pc[i].turn > 0}

lastWriter == CHOOSE i \in writers : \A j \in writers : pc[j].turn <= pc[i].turn

sameArtifact == \A i, j \in Requests : artifactOf(args[i]) = artifactOf(args[j])

\* C21: when the canvas saves under way at once, all for one artifact, have
\* all ended, each ended without error, and the artifact holds the whole
\* content of the save whose write took effect last.
C21_ConcurrentSavesLastWriterWins ==
    (/\ \A i \in Requests : args[i].program \in {"plugin", "server"}
     /\ sameArtifact
     /\ allDone)
        => /\ \A i \in Requests : result[i].ok
           /\ writers = Requests
           /\ vault.files[artifactOf(args[1])]
                = stringify(graphOf(args[lastWriter]))

-----------------------------------------------------------------------------
(* CanvasService.createCanvasFromDescription (plugin) and the language     *)
(* model behind GeminiService.                                             *)

Null == "<null>"

\* the three grave accents of a code fence, which the module text cannot hold
FENCE == "'''"

\* DEFAULT_SETTINGS; the template text, which no operation modelled here
\* reads, is left short
DEFAULT_SETTINGS ==
    [geminiApiKey |-> "", defaultModel |-> "gemini-2.5-flash",
     taskTemplateFolder |-> "Tasks", canvasOutputFolder |-> "Canvas",
     chatHistoryEnabled |-> TRUE, maxChatHistory |-> 50,
     includeCurrentNoteAsContext |-> TRUE, taskTemplate |-> "---\ntype: task"]

\* GeminiService.initializeClient: a client exists when the settings or the
\* environment variable GEMINI_API_KEY hold a key
initializeClient(settings, env) ==
    [client |-> Truthy(settings.geminiApiKey) \/ Truthy(env), calls |-> <<>>]

\* GeminiService.isConfigured
isConfigured(g, settings) == g.client /\ settings.geminiApiKey # ""

\* the documents JSON.parse reads among the texts the model answers with,
\* each with the value it spells; JSON.parse throws on every other text
DocEmpty == "{\"nodes\":[],\"edges\":[]}"
DocOne ==
    "{\"nodes\":[{\"id\":\"a\",\"x\":\"0\",\"height\":\"0\",\"text\":\"T\",\"label\":\"\",\"color\":\"2\"}],\"edges\":[]}"
DocNull == "null"

Documents ==
    [t \in {DocEmpty, DocOne, DocNull} |->
        CASE t = DocEmpty -> [null |-> FALSE, nodes |-> <<>>, edges |-> <<>>]
          [] t = DocOne -> [null |-> FALSE, nodes |-> <<RawNode("a", Unsized)>>,
                            edges |-> <<>>]
          [] t = DocNull -> [null |-> TRUE, nodes |-> <<>>, edges |-> <<>>]]

JSONparse(text) ==
    IF text \in DOMAIN Documents
    THEN [ok |-> TRUE, value |-> Documents[text]]
    ELSE [ok |-> FALSE, value |-> [null |-> TRUE, nodes |-> <<>>, edges |-> <<>>]]

\* String.prototype.slice(n) and slice(0, -n)
sliceFrom(s, n) == SubSeq(s, n + 1, Len(s))
sliceEnd(s, n) == SubSeq(s, 1, Len(s) - n)

\* the text parseCanvasData hands to JSON.parse
stripFences(jsonString) ==
    LET trimmed  == trim(jsonString)
        unfenced == IF startsWith(trimmed, FENCE \o "json") THEN sliceFrom(trimmed, 7)
                    ELSE IF startsWith(trimmed, FENCE) THEN sliceFrom(trimmed, 3)
                    ELSE trimmed
        unclosed == IF endsWith(unfenced, FENCE) THEN sliceEnd(unfenced, 3)
                    ELSE unfenced
    IN  trim(unclosed)

\* CanvasService.parseCanvasData
parseCanvasData(jsonString) == JSONparse(stripFences(jsonString))

\* GeminiService.generateCanvasLayout, by generateText: one call of
\* model.generateContent, which gives `answer`: a text, or an error thrown
generateText(g, prompt, answer) ==
    IF ~g.client
    THEN [gemini |-> g,
          result |-> [text |-> "", success |-> FALSE,
                      error |-> "Gemini API is not configured. Please add your API key in settings."]]
    ELSE [gemini |-> [g EXCEPT !.calls = Append(@, [prompt |-> prompt, answer |-> answer])],
          result |-> IF answer.thrown
                     THEN [text |-> "", success |-> FALSE, error |-> answer.text]
                     ELSE [text |-> answer.text, success |-> TRUE, error |-> Undefined]]

\* what createCanvasFromDescription leaves and returns
Outcome(v, g, file) == [vault |-> v, gemini |-> g, file |-> file]

\* a createCanvasFromDescription that prepares the output folder before it
\* asks the model
createCanvasFromDescriptionFolderFirst(v, g, settings, d, layoutType, canvasName, answer, now) ==
    IF ~isConfigured(g, settings) THEN Outcome(v, g, Null)
    ELSE LET ensured   == ensureFolderExists(v, settings.canvasOutputFolder)
             generated == generateText(g, d, answer)
             parsed    == parseCanvasData(generated.result.text)
         IN  IF ~generated.result.success \/ ~parsed.ok \/ parsed.value.null
             THEN Outcome(ensured.vault, generated.gemini, Null)
             ELSE LET saved == saveCanvas(ensured.vault, settings.canvasOutputFolder,
                                          validateAndFixCanvasData(parsed.value),
                                          IF Truthy(canvasName) THEN canvasName
                                          ELSE layoutType \o "-" \o ToString(now))
                  IN  Outcome(saved.vault, generated.gemini,
                              IF saved.ok THEN saved.path ELSE Null)

\* CanvasService.createCanvasFromDescription; `now` is Date.now()
createCanvasFromDescription(v, g, settings, d, layoutType, canvasName, answer, now) ==
    IF ~isConfigured(g, settings) THEN Outcome(v, g, Null)
    ELSE LET generated == generateText(g, d, answer)
         IN  IF ~generated.result.success THEN Outcome(v, generated.gemini, Null)
             ELSE LET parsed == parseCanvasData(generated.result.text)
                  IN  \* JSON.parse throws, or validateAndFixCanvasData throws on
                      \* the properties of null: caught, null returned
                      IF ~parsed.ok \/ parsed.value.null
                      THEN Outcome(v, generated.gemini, Null)
                      ELSE LET saved ==
                                 saveCanvas(v, settings.canvasOutputFolder,
                                            validateAndFixCanvasData(parsed.value),
                                            IF Truthy(canvasName) THEN canvasName
                                            ELSE layoutType \o "-" \o ToString(now))
                           IN  Outcome(saved.vault, generated.gemini,
                                       IF saved.ok THEN saved.path ELSE Null)

-----------------------------------------------------------------------------
(* Canvases generated from descriptions, one request after another *)

MaxGenerations == 2

LayoutTypes == {"taskboard", "mindmap"}

Fenced(text) == FENCE \o "json\n" \o text \o "\n" \o FENCE

\* what model.generateContent gives: a text, or an error thrown
Answers ==
    {[thrown |-> TRUE, text |-> "fetch failed"]}
    \cup [thrown : {FALSE},
          text : {DocOne, Fenced(DocOne), FENCE \o DocEmpty \o FENCE,
                  "  " \o DocEmpty \o "\n", DocNull, "",
                  "Here is your canvas:\n" \o Fenced(DocOne),
                  FENCE \o "json\n{\"nodes\":["}]

InitGenerate ==
    /\ op = "input"
    /\ data = EmptyCanvas
    /\ description = ""
    /\ canvas = EmptyCanvas
    /\ records = NoRecords
    /\ args = <<>>
    /\ result = <<>>
    /\ vault \in CanvasVaults
    /\ pc = <<>>
    /\ \E key \in {"", "k"}, env \in {"", "e"} :
          /\ plugin = [NoPlugin EXCEPT !.settings =
                          [DEFAULT_SETTINGS EXCEPT !.geminiApiKey = key]]
          /\ gemini = initializeClient(plugin.settings, env)
    /\ view = NoView

CreateCanvasFromDescription ==
    /\ Len(args) < MaxGenerations
    /\ \E layoutType \in LayoutTypes, canvasName \in {Undefined, "a b"},
          answer \in Answers, now \in 1..MaxGenerations :
          LET made == createCanvasFromDescription(vault, gemini, plugin.settings,
                                                  "Ship it", layoutType, canvasName,
                                                  answer, now)
          IN  /\ op' = "createCanvasFromDescription"
              /\ description' = "Ship it"
              /\ args' = Append(args, [layoutType |-> layoutType,
                                       canvasName |-> canvasName])
              /\ result' = Append(result, made.file)
              /\ vault' = made.vault
              /\ gemini' = made.gemini
    /\ UNCHANGED <<data, canvas, records, pc, plugin, view>>

NextGenerate == CreateCanvasFromDescription

SpecGenerate == InitGenerate /\ [][NextGenerate]_vars

\* the answer of the last model call
lastAnswer == gemini.calls[Len(gemini.calls)].answer

\* C22: a createCanvasFromDescription whose model call fails, or answers
\* with a text that is no JSON after the code fences are stripped, returns
\* null after exactly one model call and leaves every folder and file of the
\* vault as it was; without configuration it makes no model call at all.
C22_FailureReturnsNullAndKeepsVault ==
    [][/\ isConfigured(gemini, plugin.settings)
            => /\ Len(gemini'.calls) = Len(gemini.calls) + 1
               /\ (lastAnswer'.thrown \/ ~parseCanvasData(lastAnswer'.text).ok)
                     => /\ result'[Len(result')] = Null
                        /\ vault' = vault
       /\ ~isConfigured(gemini, plugin.settings)
            => /\ gemini'.calls = gemini.calls
               /\ result'[Len(result')] = Null
               /\ vault' = vault]_vars

\* a fenced answer that broke off was asked for once, gave null and left the
\* empty vault empty; the next answer, fenced and whole, was saved
C22_Witness ==
    /\ op = "createCanvasFromDescription"
    /\ Len(gemini.calls) = 2
    /\ gemini.calls[1].answer.text = FENCE \o "json\n{\"nodes\":["
    /\ result[1] = Null
    /\ gemini.calls[2].answer.text = Fenced(DocOne)
    /\ result[2] = "Canvas/a-b.canvas"
    /\ DOMAIN vault.files = {"Canvas/a-b.canvas"}

-----------------------------------------------------------------------------
(* Notes created one after another by the create_note tool *)

MaxNotes == 3

NotePaths == {"Tasks/a", "Tasks/a.md", "b", "../x", "../vault2/x"}

InitNotes ==
    /\ op = "input"
    /\ data = EmptyCanvas
    /\ description = ""
    /\ canvas = EmptyCanvas
    /\ records = NoRecords
    /\ args = <<>>
    /\ result = <<>>
    /\ vault \in NoteVaults
    /\ pc = <<>>
    /\ gemini = NoGemini
    /\ plugin = NoPlugin
    /\ view = NoView

CreateNote ==
    /\ Len(args) < MaxNotes
    /\ \E notePath \in NotePaths, content \in {"one", "two"}, overwrite \in BOOLEAN :
          LET created == createNote(vault, notePath, content, overwrite)
          IN  /\ op' = "createNote"
              /\ args' = Append(args, [notePath |-> notePath, content |-> content,
                                       overwrite |-> overwrite])
              /\ result' = Append(result, IF created.ok THEN Returned(created.path)
                                          ELSE Threw(created.error))
              /\ vault' = created.vault
    /\ UNCHANGED <<data, description, canvas, records, pc, gemini, plugin, view>>

NextNotes == CreateNote

SpecNotes == InitNotes /\ [][NextNotes]_vars

\* the last call and what it gave
lastCall == args[Len(args)]
lastResult == result[Len(result)]

\* the file a note path stands for: resolved against the root, with ".md"
noteFile(notePath) ==
    LET joined == pathJoin(".", notePath)
    IN  IF endsWith(joined, ".md") THEN joined ELSE joined \o ".md"

\* C23: createNote on a path the vault accepts: when a note is there and
\* overwrite is false it fails and the vault stays as it was; when a note is
\* there and overwrite is true it succeeds and the note holds the new
\* content; when no note is there it creates the note, whatever overwrite is.
C23_CreateNoteOverwrite ==
    [][LET call == lastCall'
           p    == noteFile(call.notePath)
       IN  resolvePath(call.notePath).ok
             => IF isFile(vault, p) /\ ~call.overwrite
                THEN /\ ~lastResult'.ok
                     /\ vault' = vault
                ELSE /\ lastResult'.ok
                     /\ lastResult'.path = p
                     /\ isFile(vault', p)
                     /\ vault'.files[p] = call.content
                     /\ \A q \in DOMAIN vault.files \ {p} :
                           isFile(vault', q) /\ vault'.files[q] = vault.files[q]]_vars

\* a note was created as "Tasks/a", a second createNote of "Tasks/a.md"
\* without overwrite failed and left it, a third with overwrite replaced it
C23_Witness ==
    /\ op = "createNote"
    /\ Len(args) = 3
    /\ args[1].notePath = "Tasks/a" /\ args[1].content = "one" /\ result[1].ok
    /\ args[2].notePath = "Tasks/a.md" /\ ~args[2].overwrite /\ ~result[2].ok
    /\ args[3].overwrite /\ args[3].content = "two" /\ result[3].ok
    /\ vault.files["Tasks/a.md"] = "two"

-----------------------------------------------------------------------------
(* The operations of VaultService on caller-supplied paths.  The files and *)
(* folders of `vault` are held by their path relative to the vault's root, *)
(* so a location outside the vault is a path that starts with "..".        *)

\* what an operation leaves and gives: a value returned, or an error thrown
Gave(v, value) == [vault |-> v, ok |-> TRUE, value |-> value, error |-> Undefined]
Failed(v, e) == [vault |-> v, ok |-> FALSE, value |-> Undefined, error |-> e]

\* a resolved path, relative to the vault's root
relativeOf(fullPath) == pathRelative(vaultPath, fullPath)

\* fs.readFile(p, 'utf-8')
readFile(v, p) ==
    IF isFile(v, p) THEN Gave(v, v.files[p])
    ELSE IF isFolder(v, p) THEN Failed(v, "EISDIR")
    ELSE Failed(v, "ENOENT")

\* fs.unlink(p)
unlink(v, p) ==
    IF isFile(v, p)
    THEN Gave([v EXCEPT !.files = [q \in DOMAIN v.files \ {p} |-> v.files[q]]],
              Undefined)
    ELSE IF isFolder(v, p) THEN Failed(v, "EISDIR")
    ELSE Failed(v, "ENOENT")

\* VaultService.readNote
readNote(v, notePath) ==
    LET fullPath == resolvePath(notePath)
    IN  IF ~fullPath.ok THEN Failed(v, fullPath.error)
        ELSE readFile(v, relativeOf(fullPath.path))

\* VaultService.updateNote
updateNote(v, notePath, content, append) ==
    LET fullPath == resolvePath(notePath)
    IN  IF ~fullPath.ok THEN Failed(v, fullPath.error)
        ELSE LET p        == relativeOf(fullPath.path)
                 existing == readFile(v, p)
             IN  IF append /\ ~existing.ok THEN existing
                 ELSE LET done == writeFile(v, p, IF append
                                                  THEN existing.value \o "\n" \o content
                                                  ELSE content)
                      IN  IF done.ok THEN Gave(done.vault, Undefined)
                          ELSE Failed(v, done.error)

\* VaultService.deleteNote
deleteNote(v, notePath) ==
    LET fullPath == resolvePath(notePath)
    IN  IF ~fullPath.ok THEN Failed(v, fullPath.error)
        ELSE unlink(v, relativeOf(fullPath.path))

\* VaultService.createFolder
VaultService_createFolder(v, folderPath) ==
    LET fullPath == resolvePath(folderPath)
    IN  IF ~fullPath.ok THEN Failed(v, fullPath.error)
        ELSE LET made == mkdir(v, relativeOf(fullPath.path))
             IN  IF made.ok THEN Gave(made.vault, Undefined)
                 ELSE Failed(v, made.error)

\* VaultService.readCanvas; a file written by writeCanvas holds the JSON
\* value it spells, and JSON.parse throws on the text of a note
readCanvas(v, canvasPath) ==
    LET fullPath == resolvePath(canvasPath)
    IN  IF ~fullPath.ok THEN Failed(v, fullPath.error)
        ELSE LET content == readFile(v, relativeOf(fullPath.path))
             IN  IF ~content.ok THEN content
                 ELSE IF ~endsWith(fullPath.path, ".canvas")
                 THEN Failed(v, "SyntaxError")
                 ELSE content

\* how many ".." segments a relative path starts with
RECURSIVE climbs(_)
climbs(segs) ==
    IF segs # <<>> /\ Head(segs) = ".." THEN 1 + climbs(Tail(segs)) ELSE 0

\* the file at f lies in the folder dir or below it
below(dir, f) ==
    LET d  == normalize(splitSlash(dir), <<>>, FALSE)
        fs == splitSlash(f)
    IN  /\ Len(fs) > Len(d)
        /\ SubSeq(fs, 1, Len(d)) = d
        /\ climbs(fs) = climbs(d)

\* VaultService.listNotes: the paths glob finds for
\* path.join(vaultPath, folder, '**/*.md'), whatever their order
listNotes(v, folder) ==
    LET dir == relativeOf(IF Truthy(folder) THEN pathJoin(vaultPath, folder)
                          ELSE vaultPath)
    IN  Gave(v, {f \in DOMAIN v.files :
                    /\ endsWith(f, ".md")
                    /\ below(dir, f)
                    /\ ~includes("/" \o f, "/node_modules/")
                    /\ ~includes("/" \o f, "/.obsidian/")})

-----------------------------------------------------------------------------
(* The vault's operations called one after another *)

MaxOps == 2

\* inside the vault, its root, above the vault, beside it under a name that
\* starts with the root's name, and an absolute path elsewhere
VaultPaths ==
    {"Tasks/a.md", "Boards/b.canvas", "Tasks", "", "Tasks/../../vault/Tasks/a.md",
     "../x.md", "../vault2", "../vault2/x.md", "/etc/p.md"}

\* a vault with a note and a canvas, beside a note above it and a note in
\* the folder /vault2
UsedVault ==
    [folders |-> {"Tasks", "Boards", "..", "../vault2"},
     files |-> [p \in {"Tasks/a.md", "Boards/b.canvas", "../x.md", "../vault2/x.md"} |->
                  IF p = "Boards/b.canvas" THEN stringify(OldCanvas) ELSE "old"]]

InitVault ==
    /\ op = "input"
    /\ data = EmptyCanvas
    /\ description = ""
    /\ canvas = EmptyCanvas
    /\ records = NoRecords
    /\ args = <<>>
    /\ result = <<>>
    /\ vault \in {EmptyVault, UsedVault}
    /\ pc = <<>>
    /\ gemini = NoGemini
    /\ plugin = NoPlugin
    /\ view = NoView

\* the operation `name` was called on `path` and gave `outcome`
called(name, path, outcome) ==
    /\ op' = name
    /\ args' = Append(args, [op |-> name, path |-> path])
    /\ result' = Append(result, [ok |-> outcome.ok, error |-> outcome.error])
    /\ vault' = outcome.vault
    /\ UNCHANGED <<data, description, canvas, records, pc, gemini, plugin, view>>

ReadNote ==
    /\ Len(args) < MaxOps
    /\ \E path \in VaultPaths : called("readNote", path, readNote(vault, path))

CreateNoteAt ==
    /\ Len(args) < MaxOps
    /\ \E path \in VaultPaths, overwrite \in BOOLEAN :
           LET created == createNote(vault, path, "new", overwrite)
           IN  called("createNote", path,
                      IF created.ok THEN Gave(created.vault, created.path)
                      ELSE Failed(created.vault, created.error))

UpdateNote ==
    /\ Len(args) < MaxOps
    \* a canvas file holds a JSON value here, not a text to append to
    /\ \E path \in VaultPaths, append \in BOOLEAN :
           /\ append => ~endsWith(path, ".canvas")
           /\ called("updateNote", path, updateNote(vault, path, "new", append))

DeleteNote ==
    /\ Len(args) < MaxOps
    /\ \E path \in VaultPaths : called("deleteNote", path, deleteNote(vault, path))

CreateFolderAt ==
    /\ Len(args) < MaxOps
    /\ \E path \in VaultPaths :
           called("createFolder", path, VaultService_createFolder(vault, path))

ReadCanvas ==
    /\ Len(args) < MaxOps
    /\ \E path \in VaultPaths : called("readCanvas", path, readCanvas(vault, path))

WriteCanvas ==
    /\ Len(args) < MaxOps
    /\ \E path \in VaultPaths :
           LET saved == writeCanvas(vault, path, generateCustomCanvas("new"))
           IN  called("writeCanvas", path,
                      IF saved.ok THEN Gave(saved.vault, saved.path)
                      ELSE Failed(saved.vault, saved.error))

ListNotes ==
    /\ Len(args) < MaxOps
    /\ \E folder \in VaultPaths \cup {Undefined} :
           called("listNotes", folder, listNotes(vault, folder))

NextVault ==
    \/ ReadNote
    \/ CreateNoteAt
    \/ UpdateNote
    \/ DeleteNote
    \/ CreateFolderAt
    \/ ReadCanvas
    \/ WriteCanvas
    \/ ListNotes

SpecVault == InitVault /\ [][NextVault]_vars

\* the location a call's path stands for, relative to the vault's root:
\* path.resolve(vaultPath, path), and path.join(vaultPath, folder) in
\* listNotes
locationOf(call) ==
    IF call.op = "listNotes"
    THEN relativeOf(IF Truthy(call.path) THEN pathJoin(vaultPath, call.path)
                    ELSE vaultPath)
    ELSE relativeOf(pathResolve(vaultPath, call.path))

\* neither the vault's root nor below it
outside(call) == climbs(splitSlash(locationOf(call))) > 0

\* C24: an operation called with a path whose location is outside the vault
\* throws, and leaves every file and folder as it was.
C24_OutsidePathsRejected ==
    [][outside(lastCall') => ~lastResult'.ok /\ vault' = vault]_vars

-----------------------------------------------------------------------------
(* The mind-map graph as a tree *)

centralOf(g) == g.nodes[1]

branchesOf(g) == {i \in 1..Len(g.nodes) : Len(g.nodes[i].polar) = 1}

subtopicsOf(g) == {i \in 1..Len(g.nodes) : Len(g.nodes[i].polar) = 2}

\* the branch a subtopic was laid out around
parentOf(g, s) ==
    CHOOSE b \in branchesOf(g) : g.nodes[b].polar[1].angle = g.nodes[s].polar[1].angle

\* the edges of g that lead from the node `from` to the node `to`
edgesBetween(g, from, to) ==
    {k \in 1..Len(g.edges) : g.edges[k].fromNode = from /\ g.edges[k].toNode = to}

\* C25: every mind-map graph is a tree rooted at the central node: exactly
\* one edge from the central node to each branch node, exactly one edge from
\* each branch node to each of its rendered subtopics, and no other edge; so
\* there is one edge fewer than there are nodes, every edge's ends are nodes
\* of the graph, and without branches the graph is the central node alone.
C25_MindMapIsTree ==
    isMindMap =>
        LET g       == canvas
            ids     == {g.nodes[i].id : i \in 1..Len(g.nodes)}
            central == centralOf(g).id
            treeEdges ==
                UNION {edgesBetween(g, central, g.nodes[b].id) : b \in branchesOf(g)}
                \cup UNION {edgesBetween(g, g.nodes[parentOf(g, s)].id, g.nodes[s].id) :
                                s \in subtopicsOf(g)}
        IN  /\ Len(g.nodes) >= 1
            /\ Len(centralOf(g).polar) = 0
            /\ branchesOf(g) \cup subtopicsOf(g) = 2..Len(g.nodes)
            /\ Cardinality(ids) = Len(g.nodes)
            /\ \A b \in branchesOf(g) :
                   Cardinality(edgesBetween(g, central, g.nodes[b].id)) = 1
            /\ \A s \in subtopicsOf(g) :
                   /\ \E b \in branchesOf(g) :
                          g.nodes[b].polar[1].angle = g.nodes[s].polar[1].angle
                   /\ Cardinality(edgesBetween(g, g.nodes[parentOf(g, s)].id,
                                               g.nodes[s].id)) = 1
            /\ treeEdges = 1..Len(g.edges)
            /\ Len(g.edges) = Len(g.nodes) - 1
            /\ \A k \in 1..Len(g.edges) :
                   g.edges[k].fromNode \in ids /\ g.edges[k].toNode \in ids
            /\ (op = "mindmap" /\ description = "") =>
                   Len(g.nodes) = 1 /\ g.edges = <<>>
            /\ (op = "createMindMapCanvas" /\ records.branches = <<>>) =>
                   Len(g.nodes) = 1 /\ g.edges = <<>>

\* a mind map of two branches, one of them with subtopics
C25_Witness ==
    /\ op = "mindmap"
    /\ Cardinality(branchesOf(canvas)) = 2
    /\ subtopicsOf(canvas) # {}
    /\ Len(canvas.edges) = Len(canvas.nodes) - 1

\* the empty description
C25_WitnessEmpty ==
    /\ op = "mindmap"
    /\ description = ""
    /\ Len(canvas.nodes) = 1

-----------------------------------------------------------------------------
(* TaskManager (server) *)

\* the least member of a set of positions, 0 when there is none
firstOf(S) == IF S = {} THEN 0 ELSE CHOOSE i \in S : \A j \in S : i <= j

\* the greatest member of a set of positions, 0 when there is none
lastOf(S) == IF S = {} THEN 0 ELSE CHOOSE i \in S : \A j \in S : i >= j

charAt(s, i) == SubSeq(s, i, i)

\* the first place at or after `from` where p stands in s, 0 when none
indexFrom(s, p, from) ==
    firstOf({i \in from..(Len(s) - Len(p) + 1) : SubSeq(s, i, i + Len(p) - 1) = p})

\* the places where ^p matches under the m flag
lineStarts(s, p) ==
    {i \in 1..(Len(s) - Len(p) + 1) :
        /\ i = 1 \/ charAt(s, i - 1) = "\n"
        /\ SubSeq(s, i, i + Len(p) - 1) = p}

\* where \s* stops when it starts at k
skipSpaces(s, k) ==
    LET i == firstOf({j \in k..Len(s) : ~IsSpace(charAt(s, j))})
    IN  IF i = 0 THEN Len(s) + 1 ELSE i

\* where .* stops when it starts at q: the end of the line
endOfLine(s, q) ==
    LET n == indexFrom(s, "\n", q)
    IN  IF n = 0 THEN Len(s) + 1 ELSE n

RECURSIVE joinWith(_, _)
joinWith(xs, sep) ==
    IF xs = <<>> THEN ""
    ELSE IF Len(xs) = 1 THEN xs[1]
    ELSE xs[1] \o sep \o joinWith(Tail(xs), sep)

\* TaskManager.generateTaskContent
generateTaskContent(task, timestamp) ==
    LET subtasksText == IF Len(task.subtasks) > 0
                        THEN joinWith([k \in 1..Len(task.subtasks) |->
                                          "- [ ] " \o task.subtasks[k]], "\n")
                        ELSE "- [ ] Add subtasks here"
        tagsText     == IF Len(task.tags) > 0 THEN joinWith(task.tags, ", ") ELSE ""
    IN  "---\n"
        \o "type: task\n"
        \o "status: pending\n"
        \o "priority: " \o task.priority \o "\n"
        \o "due: " \o (IF Truthy(task.dueDate) THEN task.dueDate ELSE "") \o "\n"
        \o "tags: [" \o tagsText \o "]\n"
        \o "created: " \o timestamp \o "\n"
        \o "---\n"
        \o "\n"
        \o "# " \o task.title \o "\n"
        \o "\n"
        \o "## Description\n"
        \o task.description \o "\n"
        \o "\n"
        \o "## Subtasks\n"
        \o subtasksText \o "\n"
        \o "\n"
        \o "## Notes\n"
        \o "\n"
        \o "\n"
        \o "## Related\n"
        \o "\n"

\* TaskManager.createTask
createTask(v, task, folder, timestamp) ==
    LET filename == sanitizeFilename(task.title)
        taskPath == pathJoin(folder, filename \o ".md")
    IN  createNote(v, taskPath, generateTaskContent(task, timestamp), FALSE)

\* getValue of parseTaskNote: new RegExp(`^${key}:\\s*(.*)$`, 'm')
getValue(frontmatter, key) ==
    LET i == firstOf(lineStarts(frontmatter, key \o ":"))
    IN  IF i = 0 THEN ""
        ELSE LET q == skipSpaces(frontmatter, i + Len(key) + 1)
             IN  trim(SubSeq(frontmatter, q, endOfLine(frontmatter, q) - 1))

\* path.basename(notePath, '.md')
basename(notePath) ==
    LET segs == splitSlash(notePath)
        base == IF segs = <<>> THEN "" ELSE segs[Len(segs)]
    IN  IF endsWith(base, ".md") /\ base # ".md"
        THEN SubSeq(base, 1, Len(base) - 3)
        ELSE base

\* the first heading: content.match(/^#\s+(.+)$/m)
titleOf(notePath, content) ==
    LET heads   == {i \in lineStarts(content, "#") :
                       \E q \in (i + 2)..Len(content) :
                           /\ \A k \in (i + 1)..(q - 1) : IsSpace(charAt(content, k))
                           /\ charAt(content, q) # "\n"}
        i       == firstOf(heads)
        q       == lastOf({q \in (i + 2)..Len(content) :
                              /\ \A k \in (i + 1)..(q - 1) : IsSpace(charAt(content, k))
                              /\ charAt(content, q) # "\n"})
    IN  IF i = 0 THEN basename(notePath)
        ELSE SubSeq(content, q, endOfLine(content, q) - 1)

\* TaskManager.parseTaskNote: no task, or one (tags are left out of the record)
parseTaskNote(notePath, content) ==
    IF ~includes(content, "type: task") THEN <<>>
    ELSE IF ~startsWith(content, "---\n") THEN <<>>
    ELSE LET j == indexFrom(content, "\n---", 5)
         IN  IF j = 0 THEN <<>>
             ELSE LET frontmatter == SubSeq(content, 5, j - 1)
                      or(value, other) == IF value # "" THEN value ELSE other
                  IN  <<[path     |-> notePath,
                         title    |-> titleOf(notePath, content),
                         status   |-> or(getValue(frontmatter, "status"), "pending"),
                         priority |-> or(getValue(frontmatter, "priority"), "medium"),
                         dueDate  |-> or(getValue(frontmatter, "due"), Undefined),
                         created  |-> or(getValue(frontmatter, "created"), Undefined)]>>

\* content.replace(/^(key:\s*).*$/m, `$1${value}`)
replaceValue(content, key, value) ==
    LET i == firstOf(lineStarts(content, key \o ":"))
    IN  IF i = 0 THEN content
        ELSE LET q == skipSpaces(content, i + Len(key) + 1)
             IN  SubSeq(content, 1, q - 1) \o value
                   \o SubSeq(content, endOfLine(content, q), Len(content))

\* TaskManager.updateTaskStatus and updateTaskPriority
updateTaskField(v, taskPath, key, value) ==
    LET content == readNote(v, taskPath)
    IN  IF ~content.ok THEN content
        ELSE updateNote(v, taskPath, replaceValue(content.value, key, value), FALSE)

priorityOrder == [high |-> 0, medium |-> 1, low |-> 2]

\* the rank as the comment of listTasks has it: high, then medium, then low
rankAsCommented(priority) ==
    IF priority \in DOMAIN priorityOrder THEN priorityOrder[priority] ELSE 2

\* (priorityOrder[priority] || 2): the 0 of "high" is falsy as well
rank(priority) ==
    IF priority \in DOMAIN priorityOrder /\ priorityOrder[priority] # 0
    THEN priorityOrder[priority]
    ELSE 2

digit(c) == CHOOSE d \in 0..9 : ToString(d) = c

number(s) == IF Len(s) = 0 THEN 0
             ELSE IF Len(s) = 1 THEN digit(s)
             ELSE IF Len(s) = 2 THEN 10 * digit(charAt(s, 1)) + digit(charAt(s, 2))
             ELSE 100 * digit(charAt(s, 1)) + 10 * digit(charAt(s, 2)) + digit(charAt(s, 3))

\* new Date(created).getTime() of a toISOString text of January 2024, counted
\* from the start of that month; the differences are those of the source
getTime(created) ==
    LET day == number(SubSeq(created, 9, 10))
        h   == number(SubSeq(created, 12, 13))
        m   == number(SubSeq(created, 15, 16))
        s   == number(SubSeq(created, 18, 19))
        ms  == number(SubSeq(created, 21, 23))
    IN  ((((day - 1) * 24 + h) * 60 + m) * 60 + s) * 1000 + ms

\* the comparison function of the sort in listTasks
compareTasks(a, b) ==
    LET priorityDiff == rank(a.priority) - rank(b.priority)
    IN  IF priorityDiff # 0 THEN priorityDiff
        ELSE IF Truthy(a.created) /\ Truthy(b.created)
        THEN getTime(b.created) - getTime(a.created)
        ELSE 0

\* Array.prototype.sort, which is stable
RECURSIVE sortTasks(_)
sortTasks(tasks) ==
    IF tasks = <<>> THEN <<>>
    ELSE LET n      == Len(tasks)
             sorted == sortTasks(SubSeq(tasks, 1, n - 1))
             k      == Cardinality({i \in 1..(n - 1) : compareTasks(sorted[i], tasks[n]) <= 0})
         IN  SubSeq(sorted, 1, k) \o <<tasks[n]>> \o SubSeq(sorted, k + 1, n - 1)

\* the loop of listTasks over the notes in the order glob gave them
RECURSIVE collectTasks(_, _, _)
collectTasks(v, notes, filter) ==
    IF notes = <<>> THEN <<>>
    ELSE LET content == readNote(v, notes[1])
             found   == IF content.ok THEN parseTaskNote(notes[1], content.value) ELSE <<>>
             kept    == IF found = <<>> THEN <<>>
                        ELSE IF Truthy(filter.status) /\ found[1].status # filter.status
                        THEN <<>>
                        ELSE IF Truthy(filter.priority) /\ found[1].priority # filter.priority
                        THEN <<>>
                        ELSE found
         IN  kept \o collectTasks(v, Tail(notes), filter)

\* TaskManager.listTasks; `notes` is the listing of the folder
listTasks(v, filter, notes) == sortTasks(collectTasks(v, notes, filter))

\* the orders in which a listing can come
Orders(S) ==
    {f \in [1..Cardinality(S) -> S] : \A i, j \in 1..Cardinality(S) : f[i] = f[j] => i = j}

-----------------------------------------------------------------------------
(* Tasks created, updated and listed *)

MaxTasks == 2

Timestamps == {"2024-01-01T09:30:00.000Z", "2024-01-02T08:15:10.250Z"}

Titles == {"a", "b c"}

TaskStatuses == {"pending", "completed"}

TaskFilters == [status : {Undefined, "completed"}, priority : {Undefined, "high", "low"},
                folder : {Undefined}]

TaskVaults ==
    {[folders |-> {"Tasks"}, files |-> <<>>],
     [folders |-> {"Tasks"}, files |-> [p \in {"Tasks/readme.md"} |-> "# Tasks\n"]]}

InitTasks ==
    /\ op = "input"
    /\ data = EmptyCanvas
    /\ description = ""
    /\ canvas = EmptyCanvas
    /\ records = NoRecords
    /\ args = <<>>
    /\ result = Undefined
    /\ vault \in TaskVaults
    /\ pc = <<>>
    /\ gemini = NoGemini
    /\ plugin = NoPlugin
    /\ view = NoView

taskNotes(v) == {p \in DOMAIN v.files : parseTaskNote(p, v.files[p]) # <<>>}

CreateTask ==
    /\ op # "listTasks"
    /\ Cardinality(taskNotes(vault)) < MaxTasks
    /\ \E title \in Titles, priority \in DOMAIN priorityOrder, now \in Timestamps :
          LET task    == [title |-> title, description |-> "", priority |-> priority,
                          dueDate |-> Undefined, tags |-> <<>>, subtasks |-> <<>>]
              created == createTask(vault, task, "Tasks", now)
          IN  /\ op' = "createTask"
              /\ args' = [task |-> task, now |-> now]
              /\ result' = IF created.ok THEN Returned(created.path)
                           ELSE Threw(created.error)
              /\ vault' = created.vault
    /\ UNCHANGED <<data, description, canvas, records, pc, gemini, plugin, view>>

UpdateTaskStatus ==
    /\ op \notin {"input", "listTasks"}
    /\ \E taskPath \in taskNotes(vault), status \in TaskStatuses :
          LET updated == updateTaskField(vault, taskPath, "status", status)
          IN  /\ op' = "updateTaskStatus"
              /\ args' = [taskPath |-> taskPath, status |-> status]
              /\ result' = IF updated.ok THEN Returned(Undefined) ELSE Threw(updated.error)
              /\ vault' = updated.vault
    /\ UNCHANGED <<data, description, canvas, records, pc, gemini, plugin, view>>

UpdateTaskPriority ==
    /\ op \notin {"input", "listTasks"}
    /\ \E taskPath \in taskNotes(vault), priority \in DOMAIN priorityOrder :
          LET updated == updateTaskField(vault, taskPath, "priority", priority)
          IN  /\ op' = "updateTaskPriority"
              /\ args' = [taskPath |-> taskPath, priority |-> priority]
              /\ result' = IF updated.ok THEN Returned(Undefined) ELSE Threw(updated.error)
              /\ vault' = updated.vault
    /\ UNCHANGED <<data, description, canvas, records, pc, gemini, plugin, view>>

ListTasks ==
    /\ op # "listTasks"
    /\ \E filter \in TaskFilters :
          LET folder == IF Truthy(filter.folder) THEN filter.folder ELSE "Tasks"
          IN  \E notes \in Orders(listNotes(vault, folder).value) :
                 /\ op' = "listTasks"
                 /\ args' = [filter |-> filter, notes |-> notes]
                 /\ result' = listTasks(vault, filter, notes)
    /\ UNCHANGED <<data, description, canvas, records, vault, pc, gemini, plugin, view>>

NextTasks == CreateTask \/ UpdateTaskStatus \/ UpdateTaskPriority \/ ListTasks

SpecTasks == InitTasks /\ [][NextTasks]_vars

-----------------------------------------------------------------------------
(* Properties of the task list *)

\* C26: listTasks returns only tasks that match the status and priority
\* filters, ordered with high before medium before low priority and, among
\* tasks of equal priority that both have a created date, newer before older.
C26_ListTasksFilteredAndOrdered ==
    op = "listTasks" =>
        /\ \A i \in 1..Len(result) :
              /\ Truthy(args.filter.status) => result[i].status = args.filter.status
              /\ Truthy(args.filter.priority) => result[i].priority = args.filter.priority
        /\ \A i, j \in 1..Len(result) :
              i < j =>
                 /\ rankAsCommented(result[i].priority) <= rankAsCommented(result[j].priority)
                 /\ (/\ result[i].priority = result[j].priority
                     /\ Truthy(result[i].created)
                     /\ Truthy(result[j].created))
                        => getTime(result[i].created) >= getTime(result[j].created)

\* the filters alone
C26_OnlyMatching ==
    op = "listTasks" =>
        \A i \in 1..Len(result) :
           /\ Truthy(args.filter.status) => result[i].status = args.filter.status
           /\ Truthy(args.filter.priority) => result[i].priority = args.filter.priority

\* the order among tasks of one priority
C26_NewerFirstWithinPriority ==
    op = "listTasks" =>
        \A i, j \in 1..Len(result) :
           (/\ i < j
            /\ result[i].priority = result[j].priority
            /\ Truthy(result[i].created)
            /\ Truthy(result[j].created))
              => getTime(result[i].created) >= getTime(result[j].created)

-----------------------------------------------------------------------------
(* getClosestSide from either end *)

Origin == [fromX |-> 0, fromY |-> 0, toX |-> 0, toY |-> 0]

MaxSpokes == 4

MaxTwigs == 2

\* mind maps of up to MaxSpokes branches, whose edges leave in all directions
Spokes ==
    {[NoRecords EXCEPT !.central = "C", !.branches = Tree(shape)] :
        shape \in SeqsUpTo(0..MaxTwigs, MaxSpokes)}

InitOpposite ==
    /\ op = "input"
    /\ data = EmptyCanvas
    /\ canvas = EmptyCanvas
    /\ result = Undefined
    /\ vault = EmptyVault
    /\ pc = <<>>
    /\ gemini = NoGemini
    /\ plugin = NoPlugin
    /\ view = NoView
    /\ \/ /\ args \in [fromX : Coords, fromY : Coords, toX : Coords, toY : Coords]
          /\ description = ""
          /\ records = NoRecords
       \/ /\ args = Origin
          /\ description \in Descriptions
          /\ records = NoRecords
       \/ /\ args = Origin
          /\ description = ""
          /\ records \in Spokes

\* the two calls made for one edge: from A to B, and from B to A
GetClosestSides ==
    /\ op = "input"
    /\ op' = "getClosestSides"
    /\ result' = [fromSide |-> getClosestSide(args.fromX, args.fromY, args.toX, args.toY),
                  toSide   |-> getClosestSide(args.toX, args.toY, args.fromX, args.fromY)]
    /\ UNCHANGED <<data, description, canvas, records, args, vault, pc, gemini, plugin, view>>

NextOpposite == GetClosestSides \/ MindMap \/ CreateMindMapCanvas

SpecOpposite == InitOpposite /\ [][NextOpposite]_vars

opposite(a, b) ==
    <<a, b>> \in {<<"top", "bottom">>, <<"bottom", "top">>,
                  <<"left", "right">>, <<"right", "left">>}

\* C27: for two distinct points A and B, getClosestSide(A, B) and
\* getClosestSide(B, A) are opposite sides, so every edge of a mind map has
\* fromSide and toSide opposite; only when A = B do both calls return the
\* same side, and that side is top.
C27_OppositeSides ==
    /\ op = "getClosestSides" =>
          LET same == args.fromX = args.toX /\ args.fromY = args.toY
          IN  /\ ~same => opposite(result.fromSide, result.toSide)
              /\ same => result.fromSide = "top" /\ result.toSide = "top"
              /\ result.fromSide = result.toSide => same
    /\ isMindMap =>
          \A k \in 1..Len(canvas.edges) :
             opposite(canvas.edges[k].fromSide, canvas.edges[k].toSide)

\* a mind map with an edge that leaves sideways
C27_Witness ==
    /\ op = "createMindMapCanvas"
    /\ \E k \in 1..Len(canvas.edges) :
          canvas.edges[k].fromSide = "right" /\ canvas.edges[k].toSide = "left"

\* two distinct points on a diagonal
C27_WitnessPoints ==
    /\ op = "getClosestSides"
    /\ args.toX - args.fromX = 1
    /\ args.toY - args.fromY = -1
    /\ result = [fromSide |-> "top", toSide |-> "bottom"]

-----------------------------------------------------------------------------
(* Notes created at once *)

\* C28: of two createNote calls with overwrite = false under way at once for
\* one path, at most one returns success, and the content written by a call
\* that returned success is not replaced by the other call.
C28_OneCreatorWins ==
    \A i, j \in Requests :
       (/\ i # j
        /\ args[i].program = "createNote" /\ args[j].program = "createNote"
        /\ ~args[i].overwrite /\ ~args[j].overwrite
        /\ pc[i].at = "done" /\ pc[j].at = "done"
        /\ pc[i].path = pc[j].path)
          => /\ ~(result[i].ok /\ result[j].ok)
             /\ ~(result[i].ok /\ pc[j].turn > pc[i].turn)

-----------------------------------------------------------------------------
(* VirtualAssistantPlugin: settings and chat history in the plugin data *)

\* a Date object, and the text JSON.stringify puts in its place; both are
\* told apart by `date`
DateOf(iso) == [date |-> TRUE, iso |-> iso]

\* JSON.stringify on a message: Date.prototype.toJSON gives the ISO text
toJSON(msg) == [msg EXCEPT !.timestamp = [date |-> FALSE, iso |-> @.iso]]

\* ({...msg, timestamp: new Date(msg.timestamp)})
revive(msg) == [msg EXCEPT !.timestamp = DateOf(@.iso)]

\* what loadData gives back after saveData(object)
saveData(object) ==
    [k \in DOMAIN object |->
        IF k = "chatHistory"
        THEN [i \in DOMAIN object[k] |-> toJSON(object[k][i])]
        ELSE object[k]]

\* history.slice(-n)
sliceLast(history, n) ==
    SubSeq(history, Max(1, Len(history) - n + 1), Len(history))

\* VirtualAssistantPlugin.loadSettings; `stored` is what loadData gives, with
\* no key at all when there is no data file
loadSettings(p) == [p EXCEPT !.settings = p.stored @@ DEFAULT_SETTINGS]

\* VirtualAssistantPlugin.saveSettings, up to the update of the services
saveSettings(p) == [p EXCEPT !.stored = saveData(p.settings)]

\* VirtualAssistantPlugin.loadChatHistory
loadChatHistory(p) ==
    IF ~p.settings.chatHistoryEnabled THEN [p EXCEPT !.chatHistory = <<>>]
    ELSE IF "chatHistory" \in DOMAIN p.stored
    THEN LET loaded == [i \in DOMAIN p.stored.chatHistory |->
                           revive(p.stored.chatHistory[i])]
         IN  [p EXCEPT !.chatHistory =
                 IF Len(loaded) > p.settings.maxChatHistory
                 THEN sliceLast(loaded, p.settings.maxChatHistory)
                 ELSE loaded]
    ELSE p

\* VirtualAssistantPlugin.saveChatHistory
saveChatHistory(p, history) ==
    IF ~p.settings.chatHistoryEnabled THEN p
    ELSE [p EXCEPT !.chatHistory = history,
                   !.stored = saveData(("chatHistory" :>
                                  sliceLast(history, p.settings.maxChatHistory))
                              @@ p.stored)]

\* GeminiService.updateSettings
updateSettings(g, settings) ==
    [g EXCEPT !.client = initializeClient(settings, "").client]

-----------------------------------------------------------------------------
(* The plugin's data file over settings changes and chat saves *)

MaxChatLen == 11

sliderMin == 10

twoDigits(k) == IF k < 10 THEN "0" \o ToString(k) ELSE ToString(k)

ChatMessage(role, k) ==
    [role |-> role, content |-> "m" \o ToString(k),
     timestamp |-> DateOf("2024-01-01T09:30:" \o twoDigits(k) \o ".000Z")]

History(n) ==
    [k \in 1..n |-> ChatMessage(IF k % 2 = 1 THEN "user" ELSE "assistant", k)]

Histories == {History(n) : n \in {0, 2, MaxChatLen}}

InitPlugin ==
    /\ op = "onload"
    /\ data = EmptyCanvas
    /\ description = ""
    /\ canvas = EmptyCanvas
    /\ records = NoRecords
    /\ args = <<>>
    /\ result = Undefined
    /\ vault = EmptyVault
    /\ pc = <<>>
    /\ gemini = initializeClient(DEFAULT_SETTINGS, "")
    /\ plugin = [settings |-> DEFAULT_SETTINGS, chatHistory |-> <<>>, stored |-> <<>>]
    /\ view = NoView

\* the plugin is loaded again: loadSettings, new services, loadChatHistory
Onload ==
    /\ op # "onload"
    /\ op' = "onload"
    /\ LET loaded == loadSettings([plugin EXCEPT !.chatHistory = <<>>])
       IN  /\ plugin' = loadChatHistory(loaded)
           /\ gemini' = initializeClient(loaded.settings, "")
    /\ args' = <<>>
    /\ UNCHANGED <<data, description, canvas, records, result, vault, pc, view>>

LoadChatHistory ==
    /\ op # "loadChatHistory"
    /\ op' = "loadChatHistory"
    /\ plugin' = loadChatHistory(plugin)
    /\ UNCHANGED <<data, description, canvas, records, args, result, vault, pc, gemini, view>>

\* the view hands its history over (ChatSidebarView.onClose, onunload)
SaveChatHistory ==
    /\ op' = "saveChatHistory"
    /\ \E history \in Histories :
          /\ plugin' = saveChatHistory(plugin, history)
          /\ args' = IF plugin.settings.chatHistoryEnabled
                     THEN <<[history |-> history, max |-> plugin.settings.maxChatHistory]>>
                     ELSE <<>>
    /\ UNCHANGED <<data, description, canvas, records, result, vault, pc, gemini, view>>

\* what every onChange of the settings tab does after its assignment
saved(settings) ==
    /\ plugin' = saveSettings([plugin EXCEPT !.settings = settings])
    /\ gemini' = updateSettings(gemini, settings)
    /\ UNCHANGED <<data, description, canvas, records, args, result, vault, pc, view>>

SetGeminiApiKey ==
    /\ op' = "saveSettings"
    /\ \E value \in {"", "key"} :
          /\ value # plugin.settings.geminiApiKey
          /\ saved([plugin.settings EXCEPT !.geminiApiKey = value])

SetChatHistoryEnabled ==
    /\ op' = "saveSettings"
    /\ saved([plugin.settings EXCEPT !.chatHistoryEnabled = ~@])

SetMaxChatHistory ==
    /\ op' = "saveSettings"
    /\ \E value \in {sliderMin, 2 * sliderMin} :
          /\ value # plugin.settings.maxChatHistory
          /\ saved([plugin.settings EXCEPT !.maxChatHistory = value])

ResetToDefaults ==
    /\ op' = "saveSettings"
    /\ saved(DEFAULT_SETTINGS)

NextPlugin ==
    \/ Onload \/ LoadChatHistory \/ SaveChatHistory
    \/ SetGeminiApiKey \/ SetChatHistoryEnabled \/ SetMaxChatHistory \/ ResetToDefaults

SpecPlugin == InitPlugin /\ [][NextPlugin]_vars

-----------------------------------------------------------------------------
(* Properties of the plugin's data file *)

\* C29: with chat history enabled, after saveChatHistory(h) followed by any
\* number of saveSettings calls, the plugin data still holds the last
\* maxChatHistory messages of h, and a later loadChatHistory returns them.
C29_SettingsKeepChatHistory ==
    (args # <<>> /\ plugin.settings.chatHistoryEnabled) =>
        LET kept == sliceLast(args[1].history, args[1].max)
        IN  /\ "chatHistory" \in DOMAIN plugin.stored
            /\ plugin.stored.chatHistory = [i \in DOMAIN kept |-> toJSON(kept[i])]
            /\ op = "loadChatHistory" =>
                  plugin.chatHistory = sliceLast(kept, plugin.settings.maxChatHistory)

\* as long as no settings are saved, the data holds the history saved last
C29_SavedUntilSettingsSaved ==
    (args # <<>> /\ op = "saveChatHistory") =>
        LET kept == sliceLast(args[1].history, args[1].max)
        IN  /\ "chatHistory" \in DOMAIN plugin.stored
            /\ plugin.stored.chatHistory = [i \in DOMAIN kept |-> toJSON(kept[i])]

-----------------------------------------------------------------------------
(* ChatSidebarView *)

\* stands for the warning sign U+26A0 U+FE0F
WARNING == "(!)"

\* the system prompt sendMessage passes on
chatSystemPrompt ==
    "You are a helpful assistant for Obsidian note-taking. Help users organize their thoughts, create tasks, and manage their knowledge base. Be concise but thorough."

\* a message of the conversation; no operation of the view reads the clock
\* again, and every message carries the same instant here
messageOf(role, content) ==
    [role |-> role, content |-> content,
     timestamp |-> DateOf("2024-01-01T09:30:00.000Z")]

\* message.replace(/^create a task(?: for)?:?\s*/i, '').trim(), for the
\* command `command` the message begins with
commandDescription(message, command) ==
    LET rest1 == SubSeq(message, Len(command) + 1, Len(message))
        rest2 == IF startsWith(toLowerCase(rest1), " for")
                 THEN SubSeq(rest1, 5, Len(rest1)) ELSE rest1
        rest3 == IF startsWith(rest2, ":") THEN SubSeq(rest2, 2, Len(rest2)) ELSE rest2
    IN  trim(rest3)

\* the synchronous part of GeminiService.generateWithHistory: the history
\* and the full message handed to the model
generateWithHistory(g, messages, newMessage, systemPrompt, context) ==
    IF ~g.client THEN g
    ELSE [g EXCEPT !.calls = Append(@,
             [history |-> [k \in DOMAIN messages |->
                              [role |-> IF messages[k].role = "user" THEN "user" ELSE "model",
                               text |-> messages[k].content]],
              message |-> (IF Truthy(systemPrompt)
                           THEN "[System Instructions: " \o systemPrompt \o "]\n\n" ELSE "")
                          \o (IF Truthy(context)
                              THEN "[Current Note Context:\n" \o context \o "]\n\n" ELSE "")
                          \o newMessage])]

\* ChatSidebarView.showError
showError(w, error) ==
    [w EXCEPT !.chatHistory =
        Append(@, messageOf("assistant", WARNING \o " **Error:** " \o error))]

\* the finally block of sendMessage
finally(w) == [w EXCEPT !.isLoading = FALSE]

\* ChatSidebarView.clearChat
clearChat(w) == [w EXCEPT !.chatHistory = <<>>]

-----------------------------------------------------------------------------
(* The chat view between user, vault and model *)

MaxCalls == 2

MaxMessages == 3

\* what the user types; a command with a description starts the task or
\* canvas service and is not among them
Inputs == {"", " hello ", "create a task", "Create a canvas for: "}

NoteContents == {"note text"}

\* sendMessage from the special commands on, run to its next await or to
\* its end; `pending` are the other calls under way
dispatch(w, message, context, pending) ==
    LET lowerMessage == toLowerCase(message)
    IN  IF startsWith(lowerMessage, "create a task")
           /\ commandDescription(message, "create a task") = ""
        THEN /\ view' = finally([w EXCEPT !.chatHistory = Append(@,
                   messageOf("assistant",
                       "Please provide a description for the task you want to create."))])
             /\ gemini' = gemini
             /\ pc' = pending
        ELSE IF startsWith(lowerMessage, "create a canvas")
                /\ commandDescription(message, "create a canvas") = ""
        THEN /\ view' = finally([w EXCEPT !.chatHistory = Append(@,
                   messageOf("assistant",
                       "Please provide a description for the canvas you want to create."))])
             /\ gemini' = gemini
             /\ pc' = pending
        ELSE /\ view' = w
             /\ gemini' = generateWithHistory(gemini,
                              SubSeq(w.chatHistory, 1, Len(w.chatHistory) - 1),
                              message, chatSystemPrompt, context)
             /\ pc' = Append(pending, [at |-> "generateWithHistory", message |-> message])

InitChat ==
    /\ op = "onOpen"
    /\ data = EmptyCanvas
    /\ description = ""
    /\ canvas = EmptyCanvas
    /\ records = NoRecords
    /\ args = <<>>
    /\ result = Undefined
    /\ vault \in {EmptyVault, [folders |-> {}, files |-> [p \in {"n.md"} |-> "note text"]]}
    /\ pc = <<>>
    /\ \E key \in {"", "key"}, includeNote \in BOOLEAN :
          LET settings == [DEFAULT_SETTINGS EXCEPT !.geminiApiKey = key,
                                                   !.includeCurrentNoteAsContext = includeNote]
          IN  /\ plugin = [settings |-> settings, chatHistory |-> <<>>, stored |-> <<>>]
              /\ gemini = initializeClient(settings, "")
    /\ view = NoView

\* the user types into the input field
TypeInput ==
    /\ op' = "input"
    /\ \E text \in Inputs :
          /\ text # view.inputField
          /\ view' = [view EXCEPT !.inputField = text]
    /\ UNCHANGED <<data, description, canvas, records, args, result, vault, pc, gemini, plugin>>

\* the first test of sendMessage: nothing to send, or a request under way
sendMessageReturnsAtOnce(message) == message = "" \/ view.isLoading

\* ChatSidebarView.sendMessage up to its first await
SendMessage ==
    /\ op' = "sendMessage"
    /\ Len(gemini.calls) < MaxCalls
    /\ Len(view.chatHistory) < MaxMessages
    /\ LET message == trim(view.inputField)
       IN  IF sendMessageReturnsAtOnce(message) \/ ~isConfigured(gemini, plugin.settings)
           THEN UNCHANGED <<view, gemini, pc>>
           ELSE LET w == [view EXCEPT !.inputField = "",
                                      !.chatHistory = Append(@, messageOf("user", message)),
                                      !.isLoading = TRUE]
                IN  \E activeFile \in DOMAIN vault.files \cup {Null} :
                       IF plugin.settings.includeCurrentNoteAsContext /\ activeFile # Null
                       THEN /\ view' = w
                            /\ gemini' = gemini
                            /\ pc' = Append(pc, [at |-> "read", message |-> message])
                       ELSE dispatch(w, message, Undefined, pc)
    /\ UNCHANGED <<data, description, canvas, records, args, result, vault, plugin>>

without(calls, i) == SubSeq(calls, 1, i - 1) \o SubSeq(calls, i + 1, Len(calls))

\* the awaited vault.read ends: with the note's text, or by throwing
ReadEnds ==
    /\ op' = "read"
    /\ \E i \in 1..Len(pc) :
          /\ pc[i].at = "read"
          /\ \/ \E context \in NoteContents :
                   dispatch(view, pc[i].message, context, without(pc, i))
             \/ /\ view' = finally(showError(view, "File not found"))
                /\ gemini' = gemini
                /\ pc' = without(pc, i)
    /\ UNCHANGED <<data, description, canvas, records, args, result, vault, plugin>>

\* the pending model call ends: with a text, or with an error
ModelAnswers ==
    /\ op' = "answer"
    /\ \E i \in 1..Len(pc) :
          /\ pc[i].at = "generateWithHistory"
          /\ \E success \in BOOLEAN :
                view' = finally(IF success
                                THEN [view EXCEPT !.chatHistory =
                                         Append(@, messageOf("assistant", "answer"))]
                                ELSE showError(view, "Failed to generate response"))
          /\ pc' = without(pc, i)
    /\ UNCHANGED <<data, description, canvas, records, args, result, vault, gemini, plugin>>

ClearChat ==
    /\ op' = "clearChat"
    /\ view' = clearChat(view)
    /\ UNCHANGED <<data, description, canvas, records, args, result, vault, pc, gemini, plugin>>

NextChat == TypeInput \/ SendMessage \/ ReadEnds \/ ModelAnswers \/ ClearChat

SpecChat == InitChat /\ [][NextChat]_vars

-----------------------------------------------------------------------------
(* Properties of the chat view *)

\* empty, or user first and then assistant (the model) and user in turn
alternates(history) ==
    \A k \in 1..Len(history) :
       history[k].role = (IF k % 2 = 1 THEN "user" ELSE "model")

\* C30: under every interleaving of sendMessage, clearChat and the end of
\* the pending model call, at most one request is under way, a sendMessage
\* issued while isLoading is true changes nothing, and every history passed
\* to generateWithHistory is empty or starts with a user message and
\* alternates strictly between user and assistant.
C30_OneRequestAlternatingHistory ==
    [][/\ Len(pc') <= 1
       /\ (op' = "sendMessage" /\ view.isLoading) =>
              UNCHANGED <<view, pc, gemini, vault, plugin>>
       /\ \A k \in 1..Len(gemini'.calls) : alternates(gemini'.calls[k].history)]_vars

\* at most one request under way, and sendMessage while loading changes nothing
C30_OneRequest ==
    [][/\ Len(pc') <= 1
       /\ (op' = "sendMessage" /\ view.isLoading) =>
              UNCHANGED <<view, pc, gemini, vault, plugin>>]_vars

====
